---------------------------- MODULE Spec2Model ----------------------------
(***************************************************************************)
(* A model of the media library (mtp::Library), of the cli session         *)
(* commands built on it, and of the device they talk to through            *)
(* mtp::Session.  The device is a store of objects; every Library method   *)
(* is one action that computes, call by call, the effect of the method on  *)
(* the device and on the Library's caches.                                 *)
(***************************************************************************)
EXTENDS Integers, Sequences, FiniteSets, TLC

VARIABLES
    dev,        \* the device's objects; an object's ObjectId is its index
    devInfo,    \* what the device advertises (DeviceInfo, ObjectPropsSupported)
    lib,        \* the Library instance: its members and the records it owns
    call,       \* the last call made on the library and how it ended
    trace,      \* the session operations that call issued, in order
    hist,       \* what has happened to the device's albums so far
    calls,      \* the number of calls made on the library
    cli,        \* the cli::Session members the commands read
    cliCall,    \* the last cli command and how it ended
    usb,        \* the session operations the cli commands issued, in order
    winusb      \* the Windows usb::Device, its last call and the WinUSB
                \* functions that call made, in order

vars == <<dev, devInfo, lib, call, trace, hist, calls, cli, cliCall, usb,
          winusb>>
libVars == <<dev, devInfo, lib, call, trace, hist, calls>>
cliVars == <<cli, cliCall, usb, winusb>>

----------------------------------------------------------------------------
(* Bounds of the model *)

\* a run makes at most this many calls on the library
MaxCalls == 4

\* the lines of an input of the interactive loop
MaxLines == 3
\* the cli session starts a command while it has issued fewer operations
\* than this
MaxUsbOps == 4

----------------------------------------------------------------------------
(* Names and values the calls are made with *)

UknownArtist == "UknownArtist"
UknownAlbum == "UknownAlbum"

ArtistNames == {"", "B"}
AlbumNames == {"", "X"}
TrackNames == {"t"}
Genres == {"", "g"}
TrackIndexes == {0, 1}
Years == {0, 2001}

\* ObjectId(): the id of no object
NoObject == 0
\* Session::Root, the parent of the objects at the top of a storage
Root == -1

\* a null ArtistPtr / AlbumPtr
Null == 0

----------------------------------------------------------------------------
(* Sequences *)

Range(s) == {s[i] : i \in DOMAIN s}

RECURSIVE Ascending(_)
\* the members of a set of ids, smallest first: the order the device lists them
Ascending(S) ==
    IF S = {} THEN <<>>
    ELSE LET m == CHOOSE x \in S : \A y \in S : x <= y
         IN <<m>> \o Ascending(S \ {m})

\* the first index of s whose element satisfies the test, 0 when none does
FirstIndex(s, Test(_)) ==
    IF \E i \in DOMAIN s : Test(s[i])
    THEN CHOOSE i \in DOMAIN s : Test(s[i]) /\ \A j \in 1..(i - 1) : ~Test(s[j])
    ELSE 0

----------------------------------------------------------------------------
(* The device *)

Association == "Association"
ArtistFormat == "Artist"
AbstractAudioAlbum == "AbstractAudioAlbum"
AudioFormat == "Audio"

NewObject(fmt, parent) ==
    [fmt |-> fmt, parent |-> parent, filename |-> "", name |-> "",
     artist |-> "", artistId |-> NoObject, date |-> 0, refs |-> <<>>,
     index |-> 0, guid |-> <<>>]

\* Session::GetObjectHandles(storage, Association, parentId): the directories
\* that are children of parentId
GetObjectHandles(d, parentId) ==
    Ascending({i \in DOMAIN d : d[i].fmt = Association /\ d[i].parent = parentId})

\* Session::GetObjectPropertyList(Root, format, Name, 0, 1) for an abstract
\* format: every artist, or every album, of the device
ObjectsOfFormat(d, format) ==
    Ascending({i \in DOMAIN d : d[i].fmt = format})

\* Session::GetObjectStringProperty(id, ObjectProperty::Artist): the name of
\* the artist object an album refers to, or the artist string it carries
ArtistProperty(d, id) ==
    IF d[id].artistId \in DOMAIN d THEN d[d[id].artistId].name
    ELSE d[id].artist

----------------------------------------------------------------------------
(* Calls: a call works on a record w of the device, the library, the trace  *)
(* of the operations issued so far, the value returned (ret) and whether    *)
(* the call is still running (ok) or has thrown.  fuse counts down the      *)
(* device writes that succeed before one fails; 0 means none fails.         *)

Throw(w) == [w EXCEPT !.ok = FALSE, !.fuse = 0]

Burn(w) == [w EXCEPT !.fuse = IF @ > 1 THEN @ - 1 ELSE 0]

\* Session::CreateDirectory(name, parentId, storage)
CreateDirectory(w, name, parentId) ==
    IF ~w.ok THEN w
    ELSE IF w.fuse = 1 THEN Throw(w)
    ELSE [Burn(w) EXCEPT
            !.dev = Append(@, [NewObject(Association, parentId)
                                 EXCEPT !.filename = name]),
            !.ret = Len(w.dev) + 1,
            !.trace = Append(@, [parent |-> parentId, name |-> name,
                                 op |-> "CreateDirectory"])]

\* the value a property list gives to a property, or the default
PropValue(propList, code, default) ==
    LET i == FirstIndex(propList.elements, LAMBDA e : e.code = code)
    IN IF i = 0 THEN default ELSE propList.elements[i].value

\* Session::SendObjectPropList(storage, parentId, format, size, propList):
\* the device creates an object with the listed properties
SendObjectPropList(w, by, parentId, format, propList) ==
    IF ~w.ok THEN w
    ELSE IF w.fuse = 1 THEN Throw(w)
    ELSE [Burn(w) EXCEPT
            !.dev = Append(@, [NewObject(format, parentId) EXCEPT
                        !.filename = PropValue(propList, "ObjectFilename", ""),
                        !.name = PropValue(propList, "Name", ""),
                        !.artist = PropValue(propList, "Artist", ""),
                        !.artistId = PropValue(propList, "ArtistId", NoObject),
                        !.date = PropValue(propList, "DateAuthored", 0),
                        !.index = PropValue(propList, "Track", 0),
                        !.guid = PropValue(propList, "0xDA97", <<>>)]),
            !.ret = Len(w.dev) + 1,
            !.trace = Append(@, [parent |-> parentId, artist |-> by.artist,
                                 format |-> format,
                                 id |-> Len(w.dev) + 1, op |-> "SendObjectPropList",
                                 propList |-> propList,
                                 by |-> by.fn])]

\* Session::SendObject(stream)
SendObject(w) ==
    IF ~w.ok THEN w
    ELSE IF w.fuse = 1 THEN Throw(w)
    ELSE [Burn(w) EXCEPT !.trace = Append(@, [op |-> "SendObject"])]

----------------------------------------------------------------------------
(* Artist GUIDs: a GUID string is a sequence of one-character strings *)

HexChars == <<"0", "1", "2", "3", "4", "5", "6", "7", "8", "9",
              "a", "b", "c", "d", "e", "f">>

IsHex(c) == \E i \in DOMAIN HexChars : HexChars[i] = c

HexVal(c) == (CHOOSE i \in DOMAIN HexChars : HexChars[i] = c) - 1

\* std::stoul(hex.substr(pos, 2), nullptr, 16), -1 when it throws: leading
\* white space and a plus sign are skipped, parsing stops at the first
\* character that is no digit, and no digit at all is an error
Stoul(hex, pos) ==
    LET c1 == hex[pos + 1]
        c2 == hex[pos + 2]
    IN IF IsHex(c1) THEN (IF IsHex(c2) THEN 16 * HexVal(c1) + HexVal(c2)
                          ELSE HexVal(c1))
       ELSE IF c1 \in {" ", "+"} /\ IsHex(c2) THEN HexVal(c2)
       ELSE -1

\* hex.erase(std::remove(hex.begin(), hex.end(), '-'), hex.end())
RemoveDashes(guid) == SelectSeq(guid, LAMBDA c : c # "-")

\* where in the 32 digits byte k (from 0) of the 16-byte GUID is read
GuidDigitOffset(k) ==
    IF k < 4 THEN (3 - k) * 2
    ELSE IF k < 6 THEN 8 + (1 - (k - 4)) * 2
    ELSE IF k < 8 THEN 12 + (1 - (k - 6)) * 2
    ELSE 16 + (k - 8) * 2

\* the 16 bytes the four loops store for 32 digits (a byte is -1 where stoul
\* throws)
GuidBytes(hex) == [k \in 1..16 |-> Stoul(hex, GuidDigitOffset(k - 1))]

----------------------------------------------------------------------------
(* Property lists: the leading count and the elements written after it *)

\* an element that would be written for object 1
ElementOfObject(code, type, value) ==
    [code |-> code, value |-> value, type |-> type, handle |-> 1]

\* os.Write32(0); os.Write16(code); os.Write16(type); the value
Element(code, type, value) ==
    [code |-> code, value |-> value, type |-> type, handle |-> 0]

\* CreateArtist: the artist object's properties, with and without a GUID
ArtistPropList(name, guid) ==
    IF guid # <<>>
    THEN [elements |-> << Element("0xDAB0", "Uint8", 0),
                          Element("ObjectFilename", "String", name \o ".art"),
                          Element("0xDA97", "Uint128", guid),
                          Element("Name", "String", name) >>,
          count |-> 4]
    ELSE [elements |-> << Element("Name", "String", name),
                          Element("ObjectFilename", "String", name \o ".art") >>,
          count |-> 2]

\* ConvertYear(year): the DateAuthored value of a year
ConvertYear(year) == year * 10000 + 101

\* ConvertDateTime(date): the time of a DateAuthored value
ConvertDateTime(date) == (date \div 10000 - 1970) * 31536000

\* an element that would name the artist by a string on every device
ArtistElementByName(artistSupported, artist) ==
    [code |-> "Artist", value |-> artist.Name, type |-> "String", handle |-> 0]

\* CreateAlbum and CreateTrack: the element that names the artist
ArtistElement(artistSupported, artist) ==
    IF artistSupported
    THEN Element("ArtistId", "Uint32", artist.Id)
    ELSE Element("Artist", "String", artist.Name)

\* CreateAlbum: the album object's properties
AlbumPropList(artistSupported, artist, name, year, sendYear) ==
    [elements |-> << ArtistElement(artistSupported, artist),
                     Element("Name", "String", name),
                     Element("ObjectFilename", "String",
                             artist.Name \o "--" \o name \o ".alb") >>
                  \o (IF sendYear
                      THEN << Element("DateAuthored", "String", ConvertYear(year)) >>
                      ELSE <<>>),
     count |-> 3 + (IF sendYear THEN 1 ELSE 0)]

\* a CreateTrack that would not count the track index
TrackPropListCountingGenre(artistSupported, artist, name, genre, trackIndex, filename) ==
    [elements |-> << ArtistElement(artistSupported, artist),
                     Element("Name", "String", name) >>
                  \o (IF trackIndex # 0
                      THEN << Element("Track", "Uint16", trackIndex) >>
                      ELSE <<>>)
                  \o (IF genre # ""
                      THEN << Element("Genre", "String", genre) >>
                      ELSE <<>>)
                  \o << Element("ObjectFilename", "String", filename) >>,
     count |-> 3 + (IF genre # "" THEN 1 ELSE 0)]

\* CreateTrack: the track object's properties
TrackPropList(artistSupported, artist, name, genre, trackIndex, filename) ==
    [elements |-> << ArtistElement(artistSupported, artist),
                     Element("Name", "String", name) >>
                  \o (IF trackIndex # 0
                      THEN << Element("Track", "Uint16", trackIndex) >>
                      ELSE <<>>)
                  \o (IF genre # ""
                      THEN << Element("Genre", "String", genre) >>
                      ELSE <<>>)
                  \o << Element("ObjectFilename", "String", filename) >>,
     count |-> 3 + (IF genre # "" THEN 1 ELSE 0) + (IF trackIndex # 0 THEN 1 ELSE 0)]

----------------------------------------------------------------------------
(* The Library *)

\* no Library has been constructed
NoLibrary ==
    [built |-> FALSE,
     _artistSupported |-> FALSE, _albumDateAuthoredSupported |-> FALSE,
     _albumCoverSupported |-> FALSE,
     _artistsFolder |-> NoObject, _albumsFolder |-> NoObject,
     _musicFolder |-> NoObject,
     _artists |-> <<>>, _albums |-> <<>>,
     artistObjs |-> <<>>, albumObjs |-> <<>>]

\* Library::ListAssociations(parentId): the directories under parentId by
\* name; insert keeps the first of two with one name
ListAssociations(d, parentId) ==
    LET ids == {i \in DOMAIN d : d[i].fmt = Association /\ d[i].parent = parentId}
    IN [n \in {d[i].filename : i \in ids} |->
            CHOOSE i \in ids : d[i].filename = n
                               /\ \A j \in ids : d[j].filename = n => i <= j]

\* GetOrCreate: the first of the listed directories that has the name, or 0
FindByName(d, objects, name) ==
    FirstIndex(objects, LAMBDA id : d[id].filename = name)

\* GetOrCreate, the directories under the parent listed
GetOrCreateAmong(w, objects, i, parentId, name) ==
    IF i # 0 THEN [w EXCEPT !.ret = objects[i]]
    ELSE CreateDirectory(w, name, parentId)

\* Library::GetOrCreate(parentId, name): ret is the directory's id
GetOrCreate(w, parentId, name) ==
    IF ~w.ok THEN w
    ELSE GetOrCreateAmong(w, GetObjectHandles(w.dev, parentId),
             FindByName(w.dev, GetObjectHandles(w.dev, parentId), name),
             parentId, name)

\* Library::GetArtist(name): the Artist record, or Null
GetArtist(l, name) ==
    IF (IF name = "" THEN UknownArtist ELSE name) \in DOMAIN l._artists
    THEN l._artists[IF name = "" THEN UknownArtist ELSE name]
    ELSE Null

\* CreateArtist, a GUID given: the bytes stored in artist->Guid
GuidOfDigits(guid, hex) ==
    IF guid # <<>> /\ Len(hex) = 32 THEN GuidBytes(hex) ELSE <<>>

ParseGuid(guid) == GuidOfDigits(guid, RemoveDashes(guid))

\* CreateArtist, a GUID given: the empty data of the artist object is sent
SendArtistData(sent, guid) ==
    IF guid # <<>> THEN [SendObject(sent) EXCEPT !.ret = sent.ret]
    ELSE sent

\* CreateArtist, the device supporting artists: ret is the artist object
SendArtist(w, name, guid) ==
    SendArtistData(
        SendObjectPropList(w, [artist |-> [Name |-> name, Id |-> NoObject],
                               fn |-> "CreateArtist"],
                           w.lib._artistsFolder, ArtistFormat,
                           ArtistPropList(name, guid)),
        guid)

\* _artists.insert and the record handed to the caller: ret is the record
KeepArtist(w, artist) ==
    [w EXCEPT !.lib.artistObjs = Append(@, artist),
              !.lib._artists = @ @@ (artist.Name :> (Len(w.lib.artistObjs) + 1)),
              !.ret = Len(w.lib.artistObjs) + 1]

\* CreateArtist, the artist object created (or not wanted)
CreateArtistRecord(object, folderId, name, guid) ==
    IF ~object.ok THEN object
    ELSE KeepArtist(object, [Name |-> name, Id |-> object.ret,
                             MusicFolderId |-> folderId, Guid |-> guid])

\* CreateArtist, the artist's music folder found or created
CreateArtistIn(folder, name, guid) ==
    IF ~folder.ok THEN folder
    ELSE IF -1 \in Range(guid) THEN Throw(folder)
    ELSE CreateArtistRecord(
             IF folder.lib._artistSupported THEN SendArtist(folder, name, guid)
             ELSE [folder EXCEPT !.ret = NoObject],
             folder.ret, name, guid)

\* Library::CreateArtist(name, guid): ret is the new Artist record
CreateArtist(w, name, guid) ==
    IF ~w.ok THEN w
    ELSE CreateArtistIn(
             GetOrCreate(w, w.lib._musicFolder,
                         IF name = "" THEN UknownArtist ELSE name),
             IF name = "" THEN UknownArtist ELSE name,
             ParseGuid(guid))

\* the constructor's scan of root: the id of the last directory with the name
RootFolder(d, name) ==
    LET ids == {i \in DOMAIN d : d[i].fmt = Association /\ d[i].parent = Root
                                 /\ d[i].filename = name}
    IN IF ids = {} THEN NoObject
       ELSE CHOOSE i \in ids : \A j \in ids : j <= i

\* the constructor remembers the folder it created
FolderMade(made, member) ==
    IF made.ok THEN [made EXCEPT !.lib[member] = made.ret] ELSE made

\* a constructor that would create a well-known folder whatever the scan found
EnsureFolderUnscanned(w, member, name, wanted) ==
    IF ~w.ok \/ ~wanted THEN w
    ELSE FolderMade(CreateDirectory(w, name, Root), member)

\* the constructor creates a well-known folder that the scan did not find
EnsureFolder(w, member, name, wanted) ==
    IF ~w.ok \/ ~wanted \/ w.lib[member] # NoObject THEN w
    ELSE FolderMade(CreateDirectory(w, name, Root), member)

\* Library::State, in the order of the enumeration
States == <<"Initialising", "QueryingArtists", "LoadingArtists",
            "QueryingAlbums", "LoadingAlbums", "Loaded">>

\* the constructor calls reporter(state, progress, total)
Report(w, state) ==
    IF ~w.ok THEN w ELSE [w EXCEPT !.hist.reported = Append(@, state)]

\* the constructor, an artist object's music folder found or created
LoadArtistIn(folder, id, name) ==
    IF ~folder.ok \/ name \in DOMAIN folder.lib._artists THEN folder
    ELSE KeepArtist(folder, [Name |-> name, Id |-> id,
                             MusicFolderId |-> folder.ret, Guid |-> folder.dev[id].guid])

\* the constructor loads one artist object of the device
LoadArtist(w, id, musicFolders) ==
    LoadArtistIn(IF w.dev[id].name \in DOMAIN musicFolders
                 THEN [w EXCEPT !.ret = musicFolders[w.dev[id].name]]
                 ELSE CreateDirectory(w, w.dev[id].name, w.lib._musicFolder),
                 id, w.dev[id].name)

RECURSIVE LoadArtists(_, _, _)
\* the constructor's pass over the device's artist objects
LoadArtists(w, ids, musicFolders) ==
    IF ~w.ok \/ ids = <<>> THEN w
    ELSE LoadArtists(Report(LoadArtist(w, Head(ids), musicFolders),
                            "LoadingArtists"),
                     Tail(ids), musicFolders)

\* _albums.insert and the record: ret is the record
KeepAlbum(w, album) ==
    [w EXCEPT !.lib.albumObjs = Append(@, album),
              !.lib._albums = @ @@ (<<album.Artist, album.Name>> :>
                                        (Len(w.lib.albumObjs) + 1)),
              !.ret = Len(w.lib.albumObjs) + 1]

\* the constructor: the artist an album names, created when not cached
ArtistOfAlbum(w, artistName) ==
    IF GetArtist(w.lib, artistName) # Null
    THEN [w EXCEPT !.ret = GetArtist(w.lib, artistName)]
    ELSE CreateArtist(w, artistName, <<>>)

\* the constructor: the directories under an artist, listed once an artist
ListedFolders(got, albumFolders) ==
    IF ~got.ok \/ got.ret \in DOMAIN albumFolders THEN albumFolders
    ELSE albumFolders @@
         (got.ret :> ListAssociations(got.dev,
                         got.lib.artistObjs[got.ret].MusicFolderId))

\* the constructor, an album's music folder found or created
LoadAlbumIn(folder, id, artist, name) ==
    IF ~folder.ok \/ <<artist, name>> \in DOMAIN folder.lib._albums THEN folder
    ELSE KeepAlbum(folder,
            [Name |-> name, Id |-> id, MusicFolderId |-> folder.ret,
             Artist |-> artist,
             Year |-> IF folder.lib._albumDateAuthoredSupported
                         /\ folder.dev[id].date # 0
                      THEN ConvertDateTime(folder.dev[id].date) ELSE 0,
             RefsLoaded |-> FALSE, Refs |-> {}, Tracks |-> {}])

\* the constructor loads one album object, its artist being got.ret
LoadAlbum(got, id, folders) ==
    IF ~got.ok THEN got
    ELSE LoadAlbumIn(
             IF got.dev[id].name \in DOMAIN folders[got.ret]
             THEN [got EXCEPT !.ret = folders[got.ret][got.dev[id].name]]
             ELSE CreateDirectory(got, got.dev[id].name,
                                  got.lib.artistObjs[got.ret].MusicFolderId),
             id, got.ret, got.dev[id].name)

RECURSIVE LoadAlbums(_, _, _)
RECURSIVE LoadAlbumsOf(_, _, _)
\* the constructor's pass over the device's album objects; albumFolders is
\* its local map from an artist to the directories listed under it
LoadAlbums(w, ids, albumFolders) ==
    IF ~w.ok \/ ids = <<>> THEN w
    ELSE LoadAlbumsOf(ArtistOfAlbum(w, ArtistProperty(w.dev, Head(ids))),
                      ids, albumFolders)

\* the pass, the artist of the first album being got.ret
LoadAlbumsOf(got, ids, albumFolders) ==
    LoadAlbums(Report(LoadAlbum(got, Head(ids),
                                ListedFolders(got, albumFolders)),
                      "LoadingAlbums"),
               Tail(ids), ListedFolders(got, albumFolders))

\* the constructor reads what the device supports and scans root
Scan(w) ==
    [w EXCEPT !.hist.reported = <<"Initialising">>,
              !.lib = [NoLibrary EXCEPT
        !.built = TRUE,
        !._artistSupported = devInfo.artist,
        !._albumDateAuthoredSupported = devInfo.dateAuthored,
        !._albumCoverSupported = devInfo.cover,
        !._artistsFolder = RootFolder(w.dev, "Artists"),
        !._albumsFolder = RootFolder(w.dev, "Albums"),
        !._musicFolder = RootFolder(w.dev, "Music")]]

\* the constructor has ended: a Library, or none when it threw
Constructed(loaded) ==
    IF ~loaded.ok THEN [loaded EXCEPT !.lib = NoLibrary]
    ELSE [loaded EXCEPT !.hist.built = TRUE]

\* the constructor queries the artist objects, if the device has the format,
\* and the album objects, and then starts loading the artists
Query(music) ==
    IF music.lib._artistSupported
    THEN Report(Report(Report(music, "QueryingArtists"), "QueryingAlbums"),
                "LoadingArtists")
    ELSE Report(music, "QueryingAlbums")

\* the constructor, its three folders found or created
LoadLibrary(music) ==
    Constructed(
        Report(
            LoadAlbums(
                Report(
                    LoadArtists(Query(music),
                        IF music.lib._artistSupported
                        THEN ObjectsOfFormat(music.dev, ArtistFormat) ELSE <<>>,
                        ListAssociations(music.dev, music.lib._musicFolder)),
                    "LoadingAlbums"),
                ObjectsOfFormat(music.dev, AbstractAudioAlbum),
                <<>>),
            "Loaded"))

\* Library::Library(session, reporter)
Library(w) ==
    LoadLibrary(
        EnsureFolder(
            EnsureFolder(
                EnsureFolder(Scan(w), "_artistsFolder", "Artists",
                             devInfo.artist),
                "_albumsFolder", "Albums", TRUE),
            "_musicFolder", "Music", TRUE))

\* Library::GetAlbum(artist, name): the Album record, or Null
GetAlbum(l, artist, name) ==
    IF <<artist, IF name = "" THEN UknownAlbum ELSE name>> \in DOMAIN l._albums
    THEN l._albums[<<artist, IF name = "" THEN UknownAlbum ELSE name>>]
    ELSE Null

\* Library::GetAlbumsByArtist(artist): the cached albums of the artist
GetAlbumsByArtist(l, artist) ==
    IF artist = Null THEN {}
    ELSE {l._albums[key] : key \in {k \in DOMAIN l._albums :
                                        l.albumObjs[l._albums[k]].Artist = artist}}

\* CreateAlbum, the album object sent
CreateAlbumRecord(object, folderId, artist, name, year) ==
    IF ~object.ok THEN object
    ELSE KeepAlbum(object,
            [Name |-> name, Id |-> object.ret,
             MusicFolderId |-> folderId, Artist |-> artist, Year |-> year,
             RefsLoaded |-> FALSE, Refs |-> {}, Tracks |-> {}])

\* CreateAlbum, the album's music folder found or created
CreateAlbumIn(folder, artist, a, name, year) ==
    CreateAlbumRecord(
        SendObjectPropList(folder,
            [artist |-> [Name |-> a.Name, Id |-> a.Id], fn |-> "CreateAlbum"],
            folder.lib._albumsFolder, AbstractAudioAlbum,
            AlbumPropList(folder.lib._artistSupported, a, name, year,
                          year # 0 /\ folder.lib._albumDateAuthoredSupported)),
        folder.ret, artist, name, year)

\* Library::CreateAlbum(artist, name, year): ret is the new Album record
CreateAlbum(w, artist, name, year) ==
    IF ~w.ok THEN w
    ELSE IF artist = Null THEN Throw(w)
    ELSE CreateAlbumIn(
             GetOrCreate(w, w.lib.artistObjs[artist].MusicFolderId,
                         IF name = "" THEN UknownAlbum ELSE name),
             artist, w.lib.artistObjs[artist],
             IF name = "" THEN UknownAlbum ELSE name, year)

\* CreateTrack, the track object sent: ret is the NewTrackInfo
NewTrackInfo(object, name, trackIndex) ==
    IF ~object.ok THEN object
    ELSE [object EXCEPT !.ret = [Name |-> name, Id |-> object.ret,
                                 Index |-> trackIndex]]

\* a CreateTrack that would put the track into the Music folder
TrackParentMusic(l, album) == l._musicFolder

\* CreateTrack: the parent of the track object
TrackParent(l, album) == l.albumObjs[album].MusicFolderId

\* Library::CreateTrack(artist, album, type, name, genre, trackIndex,
\* filename, size)
CreateTrack(w, artist, album, name, genre, trackIndex, filename) ==
    IF ~w.ok THEN w
    ELSE NewTrackInfo(
            SendObjectPropList(w,
                [artist |-> [Name |-> w.lib.artistObjs[artist].Name,
                             Id |-> w.lib.artistObjs[artist].Id],
                 fn |-> "CreateTrack"],
                TrackParent(w.lib, album), AudioFormat,
                TrackPropList(w.lib._artistSupported, w.lib.artistObjs[artist],
                              name, genre, trackIndex, filename)),
            name, trackIndex)

\* LoadRefs, the references read from the device
KeepRefs(w, album, id, refs) ==
    [w EXCEPT
       !.lib.albumObjs[album].Refs = @ \cup refs,
       !.lib.albumObjs[album].Tracks =
           @ \cup {<<w.dev[t].name, w.dev[t].index>> : t \in refs},
       !.lib.albumObjs[album].RefsLoaded = TRUE,
       !.trace = Append(@, [id |-> id, op |-> "GetObjectReferences"]),
       !.hist.foreign = @ \cup {<<id, t>> : t \in
                                 {r \in refs : <<id, r>> \notin w.hist.added}}]

\* Library::LoadRefs(album)
LoadRefs(w, album) ==
    IF ~w.ok \/ album = Null THEN w
    ELSE IF w.lib.albumObjs[album].RefsLoaded THEN w
    ELSE KeepRefs(w, album, w.lib.albumObjs[album].Id,
                  Range(w.dev[w.lib.albumObjs[album].Id].refs))

\* Session::SetObjectReferences(id, handles)
SetObjectReferences(w, id, handles) ==
    IF ~w.ok THEN w
    ELSE IF w.fuse = 1 THEN Throw(w)
    ELSE [Burn(w) EXCEPT
            !.dev[id].refs = handles,
            !.trace = Append(@, [id |-> id, op |-> "SetObjectReferences",
                                 handles |-> handles])]

\* the handles AddTrack would write if it forgot the album's references
TrackHandlesAlone(refs, ti) == <<ti.Id>>

\* AddTrack: the handles written, the album's references and then the track
\* (Refs is an unordered_set: its order is not specified, ascending is one)
TrackHandles(refs, ti) == Ascending(refs) \o <<ti.Id>>

\* an AddTrack that would cache the track before the device took the references
TrackAddedUnwritten(written, album, id, ti) ==
    [written EXCEPT
       !.lib.albumObjs[album].Refs = @ \cup {ti.Id},
       !.lib.albumObjs[album].Tracks = @ \cup {<<ti.Name, ti.Index>>}]

\* AddTrack, the references written to the device
TrackAdded(written, album, id, ti) ==
    IF ~written.ok THEN written
    ELSE [written EXCEPT
            !.lib.albumObjs[album].Refs = @ \cup {ti.Id},
            !.lib.albumObjs[album].Tracks = @ \cup {<<ti.Name, ti.Index>>},
            !.hist.added = @ \cup {<<id, ti.Id>>}]

\* AddTrack, the album's references loaded
AddTrackTo(loaded, album, ti) ==
    TrackAdded(
        SetObjectReferences(loaded, loaded.lib.albumObjs[album].Id,
            TrackHandles(loaded.lib.albumObjs[album].Refs, ti)),
        album, loaded.lib.albumObjs[album].Id, ti)

\* Library::AddTrack(album, ti)
AddTrack(w, album, ti) ==
    IF ~w.ok \/ album = Null THEN w
    ELSE AddTrackTo(LoadRefs(w, album), album, ti)

\* Library::HasTrack(album, name, trackIndex)
HasTrack(w, album, name, trackIndex) ==
    /\ album # Null
    /\ <<name, trackIndex>> \in LoadRefs(w, album).lib.albumObjs[album].Tracks

\* Library::GetTracksForAlbum(album), the ids in ascending order (Refs is an
\* unordered_set)
GetTracksForAlbum(w, album) ==
    IF album = Null THEN <<>>
    ELSE Ascending(LoadRefs(w, album).lib.albumObjs[album].Refs)

\* an AddCover that would not ask what the device advertised
CoverOfferedUnasked(l, album) == album # Null

\* AddCover sends the cover: the album is there and the album properties
\* that the constructor fetched advertise RepresentativeSampleData
CoverOffered(l, album) == album # Null /\ l._albumCoverSupported

\* Library::AddCover(album, data)
AddCover(w, album) ==
    IF ~w.ok \/ ~CoverOffered(w.lib, album) THEN w
    ELSE IF w.fuse = 1 THEN Throw(w)
    ELSE [Burn(w) EXCEPT
            !.trace = Append(@, [id |-> w.lib.albumObjs[album].Id,
                                 op |-> "SetObjectPropValue",
                                 property |-> "RepresentativeSampleData"])]

\* Session::SetObjectProperty(id, ArtistId or Artist, value)
SetArtistProperty(w, id, artist) ==
    IF ~w.ok THEN w
    ELSE IF w.fuse = 1 THEN Throw(w)
    ELSE [Burn(w) EXCEPT
            !.dev[id].artistId = IF w.lib._artistSupported THEN artist.Id ELSE @,
            !.dev[id].artist = IF w.lib._artistSupported THEN @ ELSE artist.Name,
            !.trace = Append(@, [id |-> id, op |-> "SetObjectPropValue",
                                 property |-> IF w.lib._artistSupported
                                              THEN "ArtistId" ELSE "Artist"])]

\* Library::UpdateAlbumArtist(album, new_artist)
UpdateAlbumArtist(w, album, new_artist) ==
    IF ~w.ok \/ album = Null \/ new_artist = Null THEN w
    ELSE SetArtistProperty([w EXCEPT !.lib.albumObjs[album].Artist = new_artist],
                           w.lib.albumObjs[album].Id,
                           w.lib.artistObjs[new_artist])

\* an UpdateArtistGuid that would store the bytes in the order of the text
UpdateGuidBytesInOrder(hex) == [k \in 1..16 |-> Stoul(hex, (k - 1) * 2)]

\* UpdateArtistGuid: the bytes its four loops store in Guid[0..15] (a byte
\* is -1 where stoul throws)
UpdateGuidBytes(hex) ==
    [k \in 1..16 |->
        IF k <= 4 THEN Stoul(hex, (4 - k) * 2)
        ELSE IF k <= 6 THEN Stoul(hex, 8 + (6 - k) * 2)
        ELSE IF k <= 8 THEN Stoul(hex, 12 + (8 - k) * 2)
        ELSE Stoul(hex, 16 + (k - 9) * 2)]

\* UpdateArtistGuid: artist->Guid.resize(16), and the bytes stored, one
\* after the other, until stoul throws
UpdatedGuid(old, bytes) ==
    [k \in 1..16 |->
        IF \A j \in 1..k : bytes[j] # -1 THEN bytes[k]
        ELSE IF k <= Len(old) THEN old[k] ELSE 0]

\* UpdateArtistGuid, the 32 characters stored
StoreGuid(w, artist, bytes) ==
    IF -1 \in Range(bytes)
    THEN Throw([w EXCEPT !.lib.artistObjs[artist].Guid = UpdatedGuid(@, bytes)])
    ELSE [w EXCEPT !.lib.artistObjs[artist].Guid = UpdatedGuid(@, bytes)]

\* Library::UpdateArtistGuid(artist, guid)
UpdateArtistGuid(w, artist, guid) ==
    IF ~w.ok \/ artist = Null \/ guid = <<>> THEN w
    ELSE IF Len(RemoveDashes(guid)) # 32 THEN w
    ELSE StoreGuid(w, artist, UpdateGuidBytes(RemoveDashes(guid)))

----------------------------------------------------------------------------
(* cli::Session::ZuneImport *)

\* Session::ZuneInit(): the library is constructed on first use
ZuneInit(w) == IF w.lib.built THEN w ELSE Library(w)

\* ZuneImport has ended: ret tells the records and the track it used
Imported(added, artist, album, songId) ==
    IF ~added.ok THEN added
    ELSE [added EXCEPT !.ret = [artist |-> artist, album |-> album,
                                track |-> songId.Id]]

\* ZuneImport, the file's data sent: the cover and the reference
ImportCover(data, artist, album, songId, meta) ==
    Imported(AddTrack(IF meta.Picture THEN AddCover(data, album) ELSE data,
                      album, songId),
             artist, album, songId)

\* ZuneImport, the track created: its data are sent
ImportData(song, artist, album, meta) ==
    IF ~song.ok THEN song
    ELSE ImportCover(SendObject(song), artist, album, song.ret, meta)

\* ZuneImport, the album record got (album.ret)
ImportTrack(album, artist, meta) ==
    IF ~album.ok THEN album
    ELSE ImportData(CreateTrack(album, artist, album.ret, meta.Title,
                                meta.Genre, meta.Track, "file.mp3"),
                    artist, album.ret, meta)

\* ZuneImport, the artist record got (artist.ret)
ImportAlbum(artist, meta) ==
    IF ~artist.ok THEN artist
    ELSE ImportTrack(
            IF GetAlbum(artist.lib, artist.ret, meta.Album) # Null
            THEN [artist EXCEPT
                    !.ret = GetAlbum(artist.lib, artist.ret, meta.Album)]
            ELSE CreateAlbum(artist, artist.ret, meta.Album, meta.Year),
            artist.ret, meta)

\* ZuneImport, the library there
ImportArtist(init, meta) ==
    IF ~init.ok THEN init
    ELSE ImportAlbum(
            IF GetArtist(init.lib, meta.Artist) # Null
            THEN [init EXCEPT !.ret = GetArtist(init.lib, meta.Artist)]
            ELSE CreateArtist(init, meta.Artist, <<>>),
            meta)

\* Session::ZuneImport(path), meta being the metadata read from the file
ZuneImport(w, meta) == ImportArtist(ZuneInit(w), meta)

----------------------------------------------------------------------------
(* The wireless commands of cli::Session *)

\* TrustedApp::KeysLoaded() on the session's trusted app, if there is one
KeysLoaded(c) == c.trustedApp /\ c.keys

\* a session operation that would be issued after one that threw
OperationRegardless(run, code, fails) ==
    [run EXCEPT !.ops = Append(@, [ok |-> ~fails, code |-> code]),
                !.result = IF fails THEN "failed" ELSE @]

\* a session operation of a command: it succeeds, or it throws
Operation(run, code, fails) ==
    IF run.result # "running" THEN run
    ELSE [run EXCEPT !.ops = Append(@, [ok |-> ~fails, code |-> code]),
                     !.result = IF fails THEN "failed" ELSE @]

Finish(run) == [run EXCEPT !.result = IF @ = "running" THEN "done" ELSE @]

\* Session::EnableWireless(): failAt is the operation that throws, if any
EnableWireless(c, failAt) ==
    Finish(Operation(Operation([ops |-> <<>>, result |-> "running"],
                               "0x9230", failAt = 1),
                     "0x922b", failAt = 2))

\* Session::DisableWireless()
DisableWireless(c, failAt) ==
    Finish(Operation([ops |-> <<>>, result |-> "running"], "0x9231", failAt = 1))

\* the bytes of a u32 in the memory of the host (least significant first on
\* the hosts the cli is built for)
Le32(n) == << n % 256, (n \div 256) % 256, (n \div 65536) % 256,
              (n \div 16777216) % 256 >>

\* ByteArray(n, 0)
Zeros(n) == [i \in 1..n |-> 0]

\* SetWiFiNetwork: memcmp finds the SSID at the offset of the scan data
SsidAt(scanData, ssid, offset) ==
    /\ offset + Len(ssid) <= Len(scanData)
    /\ SubSeq(scanData, offset + 1, offset + Len(ssid)) = ssid

\* SetWiFiNetwork: the offsets at which the search loop stops
ScanEntries(scanData, ssid) ==
    {offset \in 0..Len(scanData) :
        /\ SsidAt(scanData, ssid, offset)
        /\ offset >= 40
        /\ (offset - 40) + 16 + 12 <= Len(scanData)}

\* SetWiFiNetwork: the twelve bytes of securityFlags, read from the first
\* entry of the scan that names the SSID, or the WPA2 default
SecurityFlags(scanData, ssid) ==
    IF ScanEntries(scanData, ssid) = {}
    THEN Le32(1) \o Le32(7) \o Le32(4)
    ELSE SubSeq(scanData,
                (CHOOSE o \in ScanEntries(scanData, ssid) :
                    \A q \in ScanEntries(scanData, ssid) : o <= q) - 40 + 16 + 1,
                (CHOOSE o \in ScanEntries(scanData, ssid) :
                    \A q \in ScanEntries(scanData, ssid) : o <= q) - 40 + 16 + 12)

\* SetWiFiNetwork: ssidLen
SsidLen(ssid) == IF Len(ssid) > 32 THEN 32 ELSE Len(ssid)

\* SetWiFiNetwork: the 64 bytes of the profile id, the SSID and the flags
ConfigHead(ssid, securityFlags) ==
    Le32(1) \o Le32(SsidLen(ssid))
    \o [i \in 1..32 |-> IF i <= SsidLen(ssid) THEN ssid[i] ELSE 0]
    \o securityFlags \o Le32(1) \o Le32(0) \o Le32(0)

\* a configuration that would end with the ciphertext, without the padding
PadConfigNever(data) == data

\* SetWiFiNetwork: while (configData.size() < 324) configData.push_back(0)
PadConfig(data) ==
    IF Len(data) < 324 THEN data \o Zeros(324 - Len(data)) ELSE data

\* SetWiFiNetwork: configData
ConfigData(ssid, securityFlags, encryptedPassword) ==
    PadConfig(ConfigHead(ssid, securityFlags) \o Le32(128) \o encryptedPassword)

\* a session operation that carries data
DataOperation(run, code, data, fails) ==
    IF run.result # "running" THEN run
    ELSE [run EXCEPT !.ops = Append(@, [ok |-> ~fails, code |-> code,
                                        data |-> data]),
                     !.result = IF fails THEN "failed" ELSE @]

\* SetWiFiNetwork from operation 0x9224 on
SendWiFiConfiguration(run, configData, failAt) ==
    Finish(
     Operation(
      Operation(
       Operation(
        Operation(
         Operation(
          Operation(
           DataOperation(
            Operation(run, "0x9224", failAt = 2),
            "0x9227", configData, failAt = 3),
           "0x9228(0)", failAt = 4),
          "0x9228(2)", failAt = 5),
         "0x9228(2)", failAt = 6),
        "0x9228(2)", failAt = 7),
       "GetDevicePropValue(0xd217)", failAt = 8),
      "GetDevicePropValue(0xd217)", failAt = 9))

\* SetWiFiNetwork, the scan made: scanData is what the device answered and
\* encryptedPassword what EncryptWiFiPassword returned
ConfigureWiFi(scanned, ssid, scanData, encryptedPassword, failAt) ==
    IF scanned.result # "running" THEN scanned
    ELSE IF Len(encryptedPassword) # 128
    THEN [scanned EXCEPT !.result = "failed"]
    ELSE SendWiFiConfiguration(scanned,
             ConfigData(ssid, SecurityFlags(scanData, ssid), encryptedPassword),
             failAt)

\* a SetWiFiNetwork that would not ask for the keys
SetWiFiNetworkUnasked(c, ssid, scanData, encryptedPassword, failAt) ==
    ConfigureWiFi(Operation([ops |-> <<>>, result |-> "running"],
                            "GetWiFiNetworkList", failAt = 1),
                  ssid, scanData, encryptedPassword, failAt)

\* Session::SetWiFiNetwork(ssid, password)
SetWiFiNetwork(c, ssid, scanData, encryptedPassword, failAt) ==
    IF ~KeysLoaded(c)
    THEN [ops |-> <<>>, result |-> "AuthenticationRequired"]
    ELSE ConfigureWiFi(Operation([ops |-> <<>>, result |-> "running"],
                                 "GetWiFiNetworkList", failAt = 1),
                       ssid, scanData, encryptedPassword, failAt)

----------------------------------------------------------------------------
(* States and actions *)

Guids == { <<>>,
           << "4","5","a","6","6","3","b","5","-","b","1","c","b","-",
              "4","a","9","1","-","b","f","f","6","-",
              "2","b","e","f","7","b","b","f","d","d","7","6" >> }

Metadata == [Artist : ArtistNames, Year : {2001}, Picture : BOOLEAN,
             Title : TrackNames, Genre : {"g"}, Track : {1},
             Album : {"X"}]

\* the device writes in a trace
Writes(t) == Len(SelectSeq(t, LAMBDA e : e.op # "GetObjectReferences"))

\* which device write fails, 0 for none, in a call that makes these writes
\* when none fails
Fuses(w) == 0..Writes(w.trace)

\* a device never used for music
FreshDevice == <<>>

\* a device another host has synced: an album by "B" that references a track
SyncedDevice ==
    << [NewObject(AbstractAudioAlbum, Root) EXCEPT
            !.filename = "B--X.alb", !.name = "X", !.artist = "B", !.refs = <<2>>],
       [NewObject(AudioFormat, Root) EXCEPT
            !.filename = "file.mp3", !.name = "t", !.index = 1] >>

\* no call yet; of a call: ret is what it returned (Null when it threw),
\* fresh and again tell the device and the session the constructor met
NoCall == [name |-> "", artist |-> Null, ok |-> TRUE, ret |-> Null,
           op |-> "none", album |-> Null, track |-> NoObject,
           fresh |-> FALSE, again |-> FALSE]

NoCommand == [result |-> "done", cmd |-> "none", issued |-> 0]

InitLibrary ==
    /\ dev \in {FreshDevice, SyncedDevice}
    /\ devInfo \in [artist : BOOLEAN, dateAuthored : BOOLEAN, cover : BOOLEAN]
    /\ lib = NoLibrary
    /\ call = NoCall
    /\ trace = <<>>
    /\ hist = [built |-> FALSE, reported |-> <<>>, foreign |-> {}, added |-> {}]
    /\ calls = 0

IdleLibrary ==
    /\ dev = FreshDevice
    /\ devInfo = [artist |-> FALSE, dateAuthored |-> FALSE, cover |-> FALSE]
    /\ lib = NoLibrary
    /\ call = NoCall
    /\ trace = <<>>
    /\ hist = [built |-> FALSE, reported |-> <<>>, foreign |-> {}, added |-> {}]
    /\ calls = 0

\* HANDLE values
INVALID_HANDLE_VALUE == "INVALID_HANDLE_VALUE"
NULL == "NULL"

\* Device::Device: the handles DeviceDescriptor has opened; no call made yet
OpenedDevice ==
    [op |-> "Device", _winusbHandle |-> "winusb", _deviceHandle |-> "device",
     alive |-> TRUE, args |-> <<>>, api |-> <<>>, thrown |-> ""]

\* a member function is entered
Enter(d, op, args) ==
    [d EXCEPT !.op = op, !.args = args, !.api = <<>>, !.thrown = ""]

\* a WinUSB or kernel function is called
Api(d, fn, args) == [d EXCEPT !.api = Append(@, [fn |-> fn, args |-> args])]

\* throw std::runtime_error(what)
Raise(d, what) == [d EXCEPT !.thrown = what]

\* _winusbHandle == NULL || _winusbHandle == INVALID_HANDLE_VALUE
InvalidWinUsbHandle(d) == d._winusbHandle \in {NULL, INVALID_HANDLE_VALUE}

\* WriteBulk, ReadBulk: the timeout policy of the pipe
SetTimeout(d, ep, timeout) ==
    IF timeout > 0
    THEN Api(d, "WinUsb_SetPipePolicy",
             <<ep.address, "PIPE_TRANSFER_TIMEOUT", timeout>>)
    ELSE d

\* WriteBulk: what follows WinUsb_WritePipe; result is what the function
\* returned and bytesWritten what it stored
Written(d, size, result, bytesWritten) ==
    IF ~result THEN Raise(d, "WinUsb_WritePipe failed")
    ELSE IF bytesWritten # size THEN Raise(d, "Short write")
    ELSE d

\* Device::WriteBulk(ep, inputStream, timeout), the stream of this size
WriteBulk(d, ep, size, timeout, result, bytesWritten) ==
    IF InvalidWinUsbHandle(d)
    THEN Raise(d, "WriteBulk failed: Invalid WinUSB handle")
    ELSE Written(Api(SetTimeout(d, ep, timeout), "WinUsb_WritePipe",
                     <<ep.address, size>>),
                 size, result, bytesWritten)

\* ReadBulk: ByteArray buffer(ep->GetMaxPacketSize() * 1024)
BufferSize(ep) == ep.maxPacketSize * 1024

\* a ReadBulk that would write only the last, shorter read
StoreShort(d, ep, read) ==
    IF read.bytesRead > 0 /\ read.bytesRead < BufferSize(ep)
    THEN Api(d, "Write", <<read.bytes, read.bytesRead>>)
    ELSE d

\* ReadBulk: if (bytesRead > 0) outputStream->Write(buffer.data(), bytesRead)
Store(d, ep, read) ==
    IF read.bytesRead > 0
    THEN Api(d, "Write", <<read.bytes, read.bytesRead>>)
    ELSE d

RECURSIVE ReadPipes(_, _, _)
\* ReadBulk: the loop; reads are the outcomes of the WinUsb_ReadPipe calls,
\* each with the last error, the bytes read and their number
ReadPipes(d, ep, reads) ==
    IF reads = <<>> THEN d
    ELSE IF ~Head(reads).result
    THEN Raise(Api(d, "WinUsb_ReadPipe", <<ep.address, BufferSize(ep)>>),
               IF Head(reads).lastError = "ERROR_SEM_TIMEOUT"
               THEN "ReadBulk timeout" ELSE "WinUsb_ReadPipe failed")
    ELSE IF Head(reads).bytesRead = BufferSize(ep)
    THEN ReadPipes(Store(Api(d, "WinUsb_ReadPipe",
                             <<ep.address, BufferSize(ep)>>),
                         ep, Head(reads)),
                   ep, Tail(reads))
    ELSE Store(Api(d, "WinUsb_ReadPipe", <<ep.address, BufferSize(ep)>>),
               ep, Head(reads))

\* Device::ReadBulk(ep, outputStream, timeout)
ReadBulk(d, ep, timeout, reads) ==
    IF InvalidWinUsbHandle(d)
    THEN Raise(d, "ReadBulk failed: Invalid WinUSB handle")
    ELSE ReadPipes(SetTimeout(d, ep, timeout), ep, reads)

\* Device::ClearHalt(ep): a failure of WinUsb_ResetPipe is logged
ClearHalt(d, ep) ==
    IF InvalidWinUsbHandle(d)
    THEN Raise(d, "ClearHalt failed: Invalid WinUSB handle")
    ELSE Api(d, "WinUsb_ResetPipe", <<ep.address>>)

\* Device::Reset(): no function is called
Reset(d) ==
    IF InvalidWinUsbHandle(d)
    THEN Raise(d, "WinUsb_ResetPipe failed: Invalid handle")
    ELSE d

\* ~Device: if (_deviceHandle != INVALID_HANDLE_VALUE) CloseHandle
CloseDeviceHandle(d) ==
    IF d._deviceHandle # INVALID_HANDLE_VALUE
    THEN [Api(d, "CloseHandle", <<d._deviceHandle>>)
            EXCEPT !._deviceHandle = INVALID_HANDLE_VALUE]
    ELSE d

\* ~Device: if (_winusbHandle is valid) WinUsb_Free
FreeWinUsbHandle(d) ==
    IF ~InvalidWinUsbHandle(d)
    THEN [Api(d, "WinUsb_Free", <<d._winusbHandle>>)
            EXCEPT !._winusbHandle = NULL]
    ELSE d

\* Device::~Device()
Destroy(d) ==
    [CloseDeviceHandle(FreeWinUsbHandle(d)) EXCEPT !.alive = FALSE]

InitCli ==
    /\ cli \in {c \in [trustedApp : BOOLEAN, keys : BOOLEAN, _cd : {Root}] :
                    c.keys => c.trustedApp}
    /\ cliCall = NoCommand
    /\ usb = <<>>
    /\ winusb = OpenedDevice

IdleCli ==
    /\ cli = [trustedApp |-> FALSE, keys |-> FALSE, _cd |-> Root]
    /\ cliCall = NoCommand
    /\ usb = <<>>
    /\ winusb = OpenedDevice

\* the call starts on the current device and library
W(fuse) == [dev |-> dev, lib |-> lib, trace |-> <<>>, hist |-> hist,
            ok |-> TRUE, fuse |-> fuse, ret |-> Null, error |-> ""]

\* the call has ended
Commit(w, made) ==
    /\ calls < MaxCalls
    /\ calls' = calls + 1
    /\ dev' = w.dev
    /\ lib' = w.lib
    /\ trace' = w.trace
    /\ hist' = w.hist
    /\ call' = [made EXCEPT !.ok = w.ok, !.ret = IF w.ok THEN w.ret ELSE Null]
    /\ UNCHANGED <<devInfo, cliVars>>

Artists == DOMAIN lib.artistObjs
Albums == DOMAIN lib.albumObjs
Tracks == {i \in DOMAIN dev : dev[i].fmt = AudioFormat}

NoRootFolders(d) ==
    /\ RootFolder(d, "Artists") = NoObject
    /\ RootFolder(d, "Albums") = NoObject
    /\ RootFolder(d, "Music") = NoObject

Construct(mayFail) ==
    \E f \in IF mayFail THEN Fuses(Library(W(0))) ELSE {0} :
        Commit(Library(W(f)),
               [NoCall EXCEPT !.op = "Library", !.fresh = NoRootFolders(dev),
                              !.again = hist.built])

CallCreateArtist(names, guids, mayFail) ==
    /\ lib.built
    /\ \E n \in names, g \in guids :
        \E f \in IF mayFail THEN Fuses(CreateArtist(W(0), n, g)) ELSE {0} :
            Commit(CreateArtist(W(f), n, g),
                   [NoCall EXCEPT !.op = "CreateArtist", !.name = n])

CallCreateAlbum(names, years, mayFail) ==
    /\ lib.built
    /\ \E a \in Artists \cup {Null}, n \in names, y \in years :
        \E f \in IF mayFail THEN Fuses(CreateAlbum(W(0), a, n, y)) ELSE {0} :
            Commit(CreateAlbum(W(f), a, n, y),
                   [NoCall EXCEPT !.op = "CreateAlbum", !.name = n,
                                  !.artist = a])

CallCreateTrack(names, genres, indexes, mayFail) ==
    /\ lib.built
    /\ \E a \in Artists, b \in Albums, n \in names, g \in genres, i \in indexes :
        \E f \in IF mayFail THEN 0..1 ELSE {0} :
            Commit(CreateTrack(W(f), a, b, n, g, i, "file.mp3"),
                   [NoCall EXCEPT !.op = "CreateTrack", !.name = n,
                                  !.artist = a, !.album = b])

\* the NewTrackInfo of a track on the device
TrackInfo(t) == [Name |-> dev[t].name, Id |-> t, Index |-> dev[t].index]

CallAddTrack ==
    /\ lib.built
    /\ \E b \in Albums \cup {Null}, t \in Tracks :
        \E f \in Fuses(AddTrack(W(0), b, TrackInfo(t))) :
            Commit(AddTrack(W(f), b, TrackInfo(t)),
                   [NoCall EXCEPT !.op = "AddTrack", !.album = b, !.track = t])

CallAddCover ==
    /\ lib.built
    /\ \E b \in Albums \cup {Null} :
        \E f \in Fuses(AddCover(W(0), b)) :
            Commit(AddCover(W(f), b),
                   [NoCall EXCEPT !.op = "AddCover", !.album = b])

CallUpdateAlbumArtist ==
    /\ lib.built
    /\ \E b \in Albums \cup {Null}, a \in Artists \cup {Null} :
        \E f \in Fuses(UpdateAlbumArtist(W(0), b, a)) :
            Commit(UpdateAlbumArtist(W(f), b, a),
                   [NoCall EXCEPT !.op = "UpdateAlbumArtist", !.album = b,
                                  !.artist = a])

CallZuneImport(metadata, mayFail) ==
    \E m \in metadata :
        \E f \in IF mayFail THEN Fuses(ZuneImport(W(0), m)) ELSE {0} :
            Commit(ZuneImport(W(f), m),
                   [NoCall EXCEPT !.op = "ZuneImport", !.name = m.Artist])

\* a command of the cli session has run
Command(cmd, run) ==
    /\ Len(usb) < MaxUsbOps
    /\ usb' = usb \o run.ops
    /\ cliCall' = [result |-> run.result, cmd |-> cmd, issued |-> Len(run.ops)]
    /\ UNCHANGED <<cli, winusb, libVars>>

CallEnableWireless ==
    \E failAt \in 0..2 : Command("EnableWireless", EnableWireless(cli, failAt))

CallDisableWireless ==
    \E failAt \in 0..1 : Command("DisableWireless", DisableWireless(cli, failAt))

\* the SSIDs given to SetWiFiNetwork: none, a short one, one of 32 bytes and
\* one of 33
Ssids == { <<>>, <<110, 101, 116>>, [i \in 1..32 |-> 97], [i \in 1..33 |-> 98] }

\* what the device answers to GetWiFiNetworkList: nothing, or an entry that
\* names an SSID 40 bytes after its start and holds the flags 16 bytes after
ScanEntry(ssid) ==
    Zeros(16) \o <<2, 0, 0, 0, 3, 0, 0, 128, 255, 1, 0, 0>> \o Zeros(12) \o ssid

Scans == { <<>>, ScanEntry(<<110, 101, 116>>) }

\* what EncryptWiFiPassword returns: the 128 bytes of an RSA-1024 block, or
\* a block of another size
Ciphertexts == { [i \in 1..128 |-> 171], <<171>> }

\* SetWiFiNetwork has run: the command is remembered with what it was given
WiFiCommand(ssid, encryptedPassword, run) ==
    /\ Len(usb) < MaxUsbOps
    /\ usb' = usb \o run.ops
    /\ cliCall' = [result |-> run.result, ssid |-> ssid,
                   encryptedPassword |-> encryptedPassword, cmd |-> "SetWiFiNetwork",
                   issued |-> Len(run.ops)]
    /\ UNCHANGED <<cli, winusb, libVars>>

CallSetWiFiNetwork ==
    \E ssid \in Ssids, scanData \in Scans, encryptedPassword \in Ciphertexts,
       failAt \in 0..9 :
        WiFiCommand(ssid, encryptedPassword,
                    SetWiFiNetwork(cli, ssid, scanData, encryptedPassword, failAt))

Init == InitLibrary /\ IdleCli

\* the artist and album records of the library
Next ==
    \/ Construct(TRUE)
    \/ CallCreateArtist(ArtistNames, {<<>>}, TRUE)
    \/ CallCreateAlbum({"X"}, {2001}, TRUE)
    \/ CallUpdateAlbumArtist

Spec == Init /\ [][Next]_vars

\* a device another host has synced: two artist objects named "B", no folders
TwinArtists ==
    << [NewObject(ArtistFormat, Root) EXCEPT !.filename = "B.art", !.name = "B"],
       [NewObject(ArtistFormat, Root) EXCEPT !.filename = "B.art", !.name = "B"] >>

\* a device another host has synced: two albums "X" by "B", no folders
TwinAlbums ==
    << [NewObject(AbstractAudioAlbum, Root) EXCEPT
            !.filename = "B--X.alb", !.name = "X", !.artist = "B"],
       [NewObject(AbstractAudioAlbum, Root) EXCEPT
            !.filename = "B--X.alb", !.name = "X", !.artist = "B"] >>

\* devices that hold several objects with one name
InitTwins ==
    /\ dev \in {FreshDevice, SyncedDevice, TwinArtists, TwinAlbums}
    /\ devInfo \in [artist : BOOLEAN, dateAuthored : {FALSE}, cover : {FALSE}]
    /\ lib = NoLibrary
    /\ call = NoCall
    /\ trace = <<>>
    /\ hist = [built |-> FALSE, reported |-> <<>>, foreign |-> {}, added |-> {}]
    /\ calls = 0
    /\ IdleCli

SpecTwins == InitTwins /\ [][Next]_vars

\* a ZuneImport call, with the metadata read from the file
ImportCall(meta) ==
    [name |-> meta.Artist, artist |-> Null, ok |-> TRUE, ret |-> Null,
     op |-> "ZuneImport", album |-> Null, track |-> NoObject, meta |-> meta,
     fresh |-> FALSE, again |-> FALSE]

\* the files imported: tracks of one artist, with a picture or without
ImportedFiles == {m \in Metadata : m.Artist = "B"}

CallZuneImportOfFile ==
    \E m \in ImportedFiles :
        \E f \in Fuses(ZuneImport(W(0), m)) :
            Commit(ZuneImport(W(f), m), ImportCall(m))

\* imports that a device failure may end
NextImport ==
    \/ Construct(FALSE)
    \/ CallZuneImportOfFile

SpecImport == Init /\ [][NextImport]_vars

\* the tracks of the albums
NextTracks ==
    \/ Construct(FALSE)
    \/ CallZuneImport(Metadata, FALSE)
    \/ CallCreateTrack(TrackNames, {"g"}, {1}, FALSE)
    \/ CallAddTrack
    \/ CallAddCover

SpecTracks == Init /\ [][NextTracks]_vars

InitWireless == IdleLibrary /\ InitCli

NextWireless ==
    \/ CallEnableWireless
    \/ CallDisableWireless
    \/ CallSetWiFiNetwork

SpecWireless == InitWireless /\ [][NextWireless]_vars

\* the property lists of artists, albums and tracks
NextPropLists ==
    \/ Construct(FALSE)
    \/ CallCreateArtist(ArtistNames, Guids, FALSE)
    \/ CallCreateAlbum(AlbumNames, Years, FALSE)
    \/ CallCreateTrack(TrackNames, Genres, TrackIndexes, FALSE)

SpecPropLists == Init /\ [][NextPropLists]_vars

\* the GUID strings given: none, two of 32 digits, with and without dashes,
\* one of 31 digits, and one with a character that is no digit
GuidStrings32 ==
    Guids \cup
    { << "0","1","2","3","4","5","6","7","8","9","a","b","c","d","e","f",
         "f","e","d","c","b","a","9","8","7","6","5","4","3","2","1","0" >>,
      << "0","1","2","3","4","5","6","7","8","9","a","b","c","d","e","f",
         "f","e","d","c","b","a","9","8","7","6","5","4","3","2","1" >>,
      << "0","1","2","3","4","5","6","7","8","9","a","b","c","d","e","f",
         "f","e","d","c","b","a","9","8","7","6","5","4","3","2","x","y" >> }

\* a call with a GUID string
GuidCall(op, name, artist, guid) ==
    [name |-> name, artist |-> artist, guid |-> guid, ok |-> TRUE, ret |-> Null,
     op |-> op, album |-> Null, track |-> NoObject, fresh |-> FALSE,
     again |-> FALSE]

CallCreateArtistOfGuid ==
    /\ lib.built
    /\ \E g \in GuidStrings32 :
        Commit(CreateArtist(W(0), "B", g), GuidCall("CreateArtist", "B", Null, g))

CallUpdateArtistGuid ==
    /\ lib.built
    /\ \E a \in Artists \cup {Null}, g \in GuidStrings32 :
        Commit(UpdateArtistGuid(W(0), a, g),
               GuidCall("UpdateArtistGuid", "", a, g))

\* the GUIDs of the artists
NextGuids ==
    \/ Construct(FALSE)
    \/ CallCreateArtistOfGuid
    \/ CallUpdateArtistGuid

SpecGuids == Init /\ [][NextGuids]_vars

----------------------------------------------------------------------------
(* The interactive loop of cli::Session.  A line is the command it names,   *)
(* the exception ProcessCommand ends with ("none" when it returns), and     *)
(* whether the device fails the UpdatePrompt that follows the line.         *)

\* Session::Quit(): _running = false; the other commands leave _running
RunLine(s, line) ==
    [s EXCEPT !.read = @ + 1,
              !.c._running = IF line.cmd \in {"quit", "exit"} /\ line.ex = "none"
                             THEN FALSE ELSE @]

\* InteractiveInput: the catch clauses of the loop
CatchLine(s, line) ==
    IF line.ex = "none" THEN s
    ELSE [s EXCEPT !.printed = Append(@, "error: " \o line.ex)]

\* UpdatePrompt(): with a prompt and a supported battery level the device
\* is asked for the level, and the exception of the session is not caught
UpdatePrompt(s, fails) ==
    IF s.c._showPrompt /\ s.c._batterySupported /\ fails
    THEN [s EXCEPT !.thrown = "GetDeviceIntegerProperty"]
    ELSE s

\* InteractiveInput: if (_batterySupported) UpdatePrompt(), after the try
\* block
UpdatePromptOfLine(s, line) ==
    IF s.c._batterySupported THEN UpdatePrompt(s, line.prompt) ELSE s

\* InteractiveInput: the body of the loop, the line processed
AfterLine(s, line) ==
    IF line.ex = "none" /\ ~s.c._running THEN [s EXCEPT !.returned = TRUE]
    ELSE UpdatePromptOfLine(CatchLine(s, line), line)

RECURSIVE ReadLines(_, _)
\* InteractiveInput: while (ReadLine(_prompt, input)); the lines are the
\* input that is left
ReadLines(s, lines) ==
    IF s.returned \/ s.thrown # "" THEN s
    ELSE IF lines = <<>> THEN [s EXCEPT !.returned = TRUE]
    ELSE ReadLines(AfterLine(RunLine(s, Head(lines)), Head(lines)), Tail(lines))

\* Session::InteractiveInput(): _batterySupported is found out only for an
\* interactive session with a prompt
InteractiveLoop(c, battery, lines) ==
    ReadLines(
        [c |-> [c EXCEPT !._batterySupported =
                    IF c._interactive /\ c._showPrompt THEN battery ELSE @],
         thrown |-> "", read |-> 0, printed |-> <<>>, returned |-> FALSE],
        lines)

\* the lines typed: commands that return, that throw, and quit and exit
InputLines ==
    [cmd : {"ls"}, ex : {"none", "InvalidResponseException", "std::exception"},
     prompt : BOOLEAN]
    \cup [cmd : {"quit", "exit"}, ex : {"none"}, prompt : {FALSE}]
    \cup [cmd : {"quit"}, ex : {"std::exception"}, prompt : BOOLEAN]

\* the inputs: up to MaxLines lines
Inputs ==
    UNION {[1..n -> InputLines] : n \in 0..MaxLines}

InitInput ==
    /\ IdleLibrary
    /\ cli \in [_running : {TRUE}, _showPrompt : BOOLEAN, _batterySupported : {FALSE},
                _interactive : BOOLEAN]
    /\ cliCall = NoCommand
    /\ usb = <<>>
    /\ winusb = OpenedDevice

\* the interactive loop has run on an input
CallInteractiveInput ==
    /\ calls < 1
    /\ cli._running
    /\ \E lines \in Inputs, battery \in BOOLEAN :
        /\ calls' = calls + 1
        /\ cli' = InteractiveLoop(cli, battery, lines).c
        /\ cliCall' =
            [result |-> IF InteractiveLoop(cli, battery, lines).thrown = ""
                        THEN "done" ELSE "thrown",
             cmd |-> "InteractiveInput",
             issued |-> 0,
             read |-> InteractiveLoop(cli, battery, lines).read,
             printed |-> InteractiveLoop(cli, battery, lines).printed,
             lines |-> lines]
        /\ UNCHANGED <<dev, devInfo, lib, call, trace, hist, usb, winusb>>

NextInput == CallInteractiveInput

SpecInput == InitInput /\ [][NextInput]_vars

----------------------------------------------------------------------------
(* Properties *)

\* the records the library's maps hold
CachedArtists == {lib._artists[n] : n \in DOMAIN lib._artists}
CachedAlbums == {lib._albums[k] : k \in DOMAIN lib._albums}

\* the tracks AddTrack has added to an album object, and the references
\* LoadRefs found on it that no AddTrack had added
Added(id) == {p[2] : p \in {q \in hist.added : q[1] = id}}
Foreign(id) == {p[2] : p \in {q \in hist.foreign : q[1] = id}}

\* the operations of the last call
Issued(op) == {i \in DOMAIN trace : trace[i].op = op}
PropListsOf(fns) == {i \in Issued("SendObjectPropList") : trace[i].by \in fns}
RootDirectories(name) ==
    {i \in Issued("CreateDirectory") :
        trace[i].parent = Root /\ trace[i].name = name}
Covers == {i \in Issued("SetObjectPropValue") :
              trace[i].property = "RepresentativeSampleData"}

\* C1: CreateArtist(n) followed by CreateArtist(n) returns artist records
\* with the same ObjectId, for every name n, the empty name included, on
\* devices with and without ObjectFormat::Artist
CreateArtistTwiceSameId ==
    [][(/\ call.op = "CreateArtist" /\ call.ok
        /\ call'.op = "CreateArtist" /\ call'.ok
        /\ call'.name = call.name)
       => lib'.artistObjs[call'.ret].Id = lib.artistObjs[call.ret].Id]_vars

\* C2 as stated: once AddTrack has succeeded on an album, the references last
\* written to the device for it are, as a set, the tracks passed to AddTrack
ReferencesAreTheAddedTracks ==
    \A id \in DOMAIN dev :
        Added(id) # {} => Range(dev[id].refs) = Added(id)

\* C2: once AddTrack has succeeded on an album, the references last written
\* to the device for it are, as a set, the tracks passed to AddTrack for it
\* together with the references LoadRefs found on the device for it
ReferencesAreTheFoundAndAddedTracks ==
    \A id \in DOMAIN dev :
        Added(id) # {} => Range(dev[id].refs) = Foreign(id) \cup Added(id)

\* AddTrack has written an album's references that held a track no AddTrack
\* had added
AddedToFoundTracks ==
    /\ call.op = "AddTrack" /\ call.ok /\ call.album # Null
    /\ Issued("SetObjectReferences") # {}
    /\ Foreign(lib.albumObjs[call.album].Id) # {}
    /\ Added(lib.albumObjs[call.album].Id) \ Foreign(lib.albumObjs[call.album].Id) # {}

\* C3: with no MTPZ keys (no trusted app, or KeysLoaded() false) the
\* EnableWireless command returns an authentication-required error and
\* issues no session operation
EnableWirelessNeedsKeys ==
    (cliCall.cmd = "EnableWireless" /\ ~KeysLoaded(cli))
        => (cliCall.issued = 0 /\ cliCall.result = "AuthenticationRequired")

\* C4: a Library constructed on a device without Artists, Albums and Music
\* under root issues exactly one CreateDirectory under root for each (for
\* Artists only on a device that supports ObjectFormat::Artist), and a second
\* construction on the device issues none for any of the three
LibraryCreatesRootFoldersOnce ==
    call.op = "Library" =>
        /\ (call.fresh /\ call.ok) =>
              /\ Cardinality(RootDirectories("Albums")) = 1
              /\ Cardinality(RootDirectories("Music")) = 1
              /\ Cardinality(RootDirectories("Artists")) =
                     IF devInfo.artist THEN 1 ELSE 0
        /\ call.again =>
              /\ RootDirectories("Albums") = {}
              /\ RootDirectories("Music") = {}
              /\ RootDirectories("Artists") = {}

\* a second Library has been constructed on a device whose first Library
\* created the three folders
LibraryConstructedAgain ==
    /\ call.op = "Library" /\ call.ok /\ call.again
    /\ devInfo.artist
    /\ RootFolder(dev, "Artists") # NoObject
    /\ RootFolder(dev, "Albums") # NoObject
    /\ RootFolder(dev, "Music") # NoObject

\* C5: after construction and any CreateArtist, CreateAlbum and
\* UpdateAlbumArtist calls, every cached artist's MusicFolderId is a directory
\* named after the artist under the Music folder, and every cached album's
\* MusicFolderId is a directory named after the album under the MusicFolderId
\* of the album's current Artist
MusicFoldersFollowRecords ==
    lib.built =>
        /\ \A a \in CachedArtists :
              /\ lib.artistObjs[a].MusicFolderId \in DOMAIN dev
              /\ dev[lib.artistObjs[a].MusicFolderId].fmt = Association
              /\ dev[lib.artistObjs[a].MusicFolderId].filename = lib.artistObjs[a].Name
              /\ dev[lib.artistObjs[a].MusicFolderId].parent = lib._musicFolder
        /\ \A b \in CachedAlbums :
              /\ lib.albumObjs[b].MusicFolderId \in DOMAIN dev
              /\ dev[lib.albumObjs[b].MusicFolderId].fmt = Association
              /\ dev[lib.albumObjs[b].MusicFolderId].filename = lib.albumObjs[b].Name
              /\ dev[lib.albumObjs[b].MusicFolderId].parent =
                     lib.artistObjs[lib.albumObjs[b].Artist].MusicFolderId

\* C6: when a mutation fails on the device, the affected cache entry is
\* invalidated and read again from the device before the operation is
\* retried: an AddTrack that follows a failed AddTrack on the album reads the
\* album's references again
FailedAddTrackReadsAgain ==
    [][(/\ call.op = "AddTrack" /\ ~call.ok /\ call.album # Null
        /\ call'.op = "AddTrack" /\ call'.album = call.album)
       => \E i \in DOMAIN trace' : trace'[i].op = "GetObjectReferences"]_vars

\* C7: every property list CreateAlbum or CreateTrack sends has exactly one
\* element that names the artist: ArtistId, a Uint32, the artist's object id,
\* on a device that supports ObjectFormat::Artist, and otherwise Artist, a
\* String, the artist's name
OneArtistElement ==
    \A i \in PropListsOf({"CreateAlbum", "CreateTrack"}) :
        \E k \in DOMAIN trace[i].propList.elements :
            /\ {j \in DOMAIN trace[i].propList.elements :
                    trace[i].propList.elements[j].code \in {"ArtistId", "Artist"}} = {k}
            /\ IF devInfo.artist
               THEN /\ trace[i].propList.elements[k].code = "ArtistId"
                    /\ trace[i].propList.elements[k].type = "Uint32"
                    /\ trace[i].propList.elements[k].value = trace[i].artist.Id
               ELSE /\ trace[i].propList.elements[k].code = "Artist"
                    /\ trace[i].propList.elements[k].type = "String"
                    /\ trace[i].propList.elements[k].value = trace[i].artist.Name

\* CreateTrack has sent a property list for an artist that is an object of
\* the device
TrackSentWithArtistId ==
    /\ call.op = "CreateTrack" /\ call.ok
    /\ devInfo.artist
    /\ lib.artistObjs[call.artist].Id # NoObject
    /\ PropListsOf({"CreateTrack"}) # {}

\* C8: in every property list CreateArtist, CreateAlbum and CreateTrack pass
\* to SendObjectPropList the object handle of every element is 0, whatever
\* the artist support, the GUID, the year, the genre and the track index
ObjectHandlesAreZero ==
    \A i \in PropListsOf({"CreateArtist", "CreateAlbum", "CreateTrack"}) :
        \A k \in DOMAIN trace[i].propList.elements :
            trace[i].propList.elements[k].handle = 0

\* CreateArtist has sent the four properties of an artist with a GUID
ArtistSentWithGuid ==
    /\ call.op = "CreateArtist" /\ call.ok
    /\ \E i \in PropListsOf({"CreateArtist"}) :
          Len(trace[i].propList.elements) = 4

\* C9: AddCover issues SetObjectPropValue(RepresentativeSampleData) only if
\* the properties of AbstractAudioAlbum fetched at construction advertised
\* it; when they did not, or the album is null, it issues no operation
CoverOnlyWhenAdvertised ==
    /\ Covers # {} => devInfo.cover
    /\ (call.op = "AddCover" /\ (~devInfo.cover \/ call.album = Null))
          => trace = <<>>

\* AddCover has been called with an album on a device that does not
\* advertise the cover
CoverNotAdvertised ==
    /\ call.op = "AddCover" /\ call.ok /\ call.album # Null
    /\ ~devInfo.cover

\* C10: every track ZuneImport adds to an album's references with AddTrack
\* was created by CreateTrack with that album's MusicFolderId as its parent
ImportedTracksAreInTheAlbumFolder ==
    (call.op = "ZuneImport" /\ call.ok) =>
        \A j \in Issued("SetObjectReferences") :
            /\ trace[j].id = lib.albumObjs[call.ret.album].Id
            /\ \E i \in PropListsOf({"CreateTrack"}) :
                  /\ i < j
                  /\ trace[i].id = trace[j].handles[Len(trace[j].handles)]
                  /\ trace[i].parent = lib.albumObjs[call.ret.album].MusicFolderId
                  /\ dev[trace[i].id].parent = lib.albumObjs[call.ret.album].MusicFolderId

\* ZuneImport has added the track it created to an album
TrackImported ==
    /\ call.op = "ZuneImport" /\ call.ok
    /\ Issued("SetObjectReferences") # {}
    /\ call.ret.track \in Range(dev[lib.albumObjs[call.ret.album].Id].refs)

\* the operations the last cli command issued
LastOps == SubSeq(usb, Len(usb) - cliCall.issued + 1, Len(usb))

\* C11: without a trusted app, or with KeysLoaded() false, SetWiFiNetwork
\* reports that MTPZ authentication is required and returns without having
\* issued any session operation and without an error raised to its caller
SetWiFiNetworkNeedsKeys ==
    (cliCall.cmd = "SetWiFiNetwork" /\ ~KeysLoaded(cli))
        => (cliCall.issued = 0 /\ cliCall.result = "AuthenticationRequired")

\* SetWiFiNetwork has been refused on a session that had issued operations
WiFiRefusedWithoutKeys ==
    /\ cliCall.cmd = "SetWiFiNetwork" /\ ~KeysLoaded(cli)
    /\ cliCall.result = "AuthenticationRequired"
    /\ usb # <<>>

\* the configurations the last cli command passed to SetWiFiConfiguration
Configurations == {i \in DOMAIN LastOps : LastOps[i].code = "0x9227"}

\* C20: for every SSID and every password whose encryption yields 128 bytes,
\* the payload SetWiFiNetwork passes to SetWiFiConfiguration is exactly 324
\* bytes: profile id 1, SSID length min(len(ssid), 32), the SSID in 32
\* zero-padded bytes, six 32-bit flags, the length 128, the 128 bytes of the
\* ciphertext, then zero padding
WiFiConfigurationIs324Bytes ==
    cliCall.cmd = "SetWiFiNetwork" =>
        \A i \in Configurations :
            /\ Len(LastOps[i].data) = 324
            /\ SubSeq(LastOps[i].data, 1, 4) = <<1, 0, 0, 0>>
            /\ SubSeq(LastOps[i].data, 5, 8) =
                  << IF Len(cliCall.ssid) < 32 THEN Len(cliCall.ssid) ELSE 32,
                     0, 0, 0 >>
            /\ \A k \in 1..32 :
                  LastOps[i].data[8 + k] =
                      IF k <= Len(cliCall.ssid) THEN cliCall.ssid[k] ELSE 0
            /\ SubSeq(LastOps[i].data, 53, 64) =
                  <<1, 0, 0, 0, 0, 0, 0, 0, 0, 0, 0, 0>>
            /\ SubSeq(LastOps[i].data, 65, 68) = <<128, 0, 0, 0>>
            /\ Len(cliCall.encryptedPassword) = 128
            /\ SubSeq(LastOps[i].data, 69, 196) = cliCall.encryptedPassword
            /\ \A k \in 197..324 : LastOps[i].data[k] = 0

\* SetWiFiNetwork has configured an SSID of 33 bytes
LongSsidConfigured ==
    /\ cliCall.cmd = "SetWiFiNetwork" /\ cliCall.result = "done"
    /\ Len(cliCall.ssid) = 33
    /\ Configurations # {}

----------------------------------------------------------------------------
(* The file commands of cli::Session.  A path is a sequence of characters. *)

\* mtp::Session::Device, the parent the device reports for a top object
Device == 0

\* the characters of a path component as a name
RECURSIVE Name(_)
Name(entity) ==
    IF entity = <<>> THEN "" ELSE Head(entity) \o Name(Tail(entity))

\* Resolve: path.find('/', p), or path.size()
NextSlash(path) ==
    IF FirstIndex(path, LAMBDA c : c = "/") = 0 THEN Len(path) + 1
    ELSE FirstIndex(path, LAMBDA c : c = "/")

\* Resolve: the entities the loop visits
RECURSIVE Entities(_)
Entities(path) ==
    IF path = <<>> THEN <<>>
    ELSE <<SubSeq(path, 1, NextSlash(path) - 1)>>
         \o Entities(SubSeq(path, NextSlash(path) + 1, Len(path)))

\* Session::GetObjectHandles(storage, ObjectFormat::Any, parent)
Children(d, parent) == Ascending({i \in DOMAIN d : d[i].parent = parent})

\* a std::runtime_error with a message
RuntimeError(w, what) == [Throw(w) EXCEPT !.error = what]

\* ResolveObjectChild, the children of the parent listed
ResolveObjectChildAmong(w, objectList, i) ==
    IF i # 0 THEN [w EXCEPT !.ret = objectList[i]]
    ELSE RuntimeError(w, "could not find")

\* Session::ResolveObjectChild(parent, entity)
ResolveObjectChild(w, parent, entity) ==
    ResolveObjectChildAmong(w, Children(w.dev, parent),
        FindByName(w.dev, Children(w.dev, parent), entity))

\* Session::MakeDirectory(parentId, name)
MakeDirectory(w, c, parentId, name) == CreateDirectory(w, name, c._cd)

\* a Resolve that would create a missing child whatever it was asked
ResolveChildCreating(found, w, c, id, entity, create) ==
    IF found.ok THEN found ELSE MakeDirectory(w, c, id, entity)

\* Resolve: try { id = ResolveObjectChild(id, entity); } catch
ResolveChild(found, w, c, id, entity, create) ==
    IF found.ok THEN found
    ELSE IF ~create THEN found
    ELSE MakeDirectory(w, c, id, entity)

\* Session::GetObjectParent(id): the device knows no parent of the root
GetObjectParent(w, id) ==
    IF id \notin DOMAIN w.dev THEN Throw(w)
    ELSE [w EXCEPT !.ret = IF w.dev[id].parent = Root THEN Device
                            ELSE w.dev[id].parent]

\* Resolve: id = GetObjectParent(id); if (id == Device) id = Root
ParentOrRoot(w) ==
    IF w.ok /\ w.ret = Device THEN [w EXCEPT !.ret = Root] ELSE w

\* Resolve: one turn of the loop, id being w.ret
ResolveEntity(w, c, entity, create) ==
    IF entity = <<>> \/ entity = <<".">> THEN w
    ELSE IF entity = <<".", ".">> THEN ParentOrRoot(GetObjectParent(w, w.ret))
    ELSE ResolveChild(ResolveObjectChild(w, w.ret, Name(entity)),
                      w, c, w.ret, Name(entity), create)

RECURSIVE ResolveEntities(_, _, _, _)
\* Resolve: the loop
ResolveEntities(w, c, entities, create) ==
    IF ~w.ok \/ entities = <<>> THEN w
    ELSE ResolveEntities(ResolveEntity(w, c, Head(entities), create), c,
                         Tail(entities), create)

\* Session::Resolve(path, create): ret is the object
Resolve(w, c, path, create) ==
    ResolveEntities(
        [w EXCEPT !.ret = IF path # <<>> /\ path[1] = "/" THEN Root ELSE c._cd],
        c, Entities(path), create)

\* the paths the commands are given: a, a/b, /a/b, ./a/ and a/..
Paths == { <<"a">>, <<"a", "/", "b">>, <<"/", "a", "/", "b">>,
           <<".", "/", "a", "/">>, <<"a", "/", ".", ".">> }

\* a device that holds the directory a, in it the directory c and the file
\* f, beside a the file g, in c the file e, and an object h that names the
\* file f as its parent
FilesDevice ==
    << [NewObject(Association, Root) EXCEPT !.filename = "a"],
       [NewObject(Association, 1) EXCEPT !.filename = "c"],
       [NewObject("Undefined", 1) EXCEPT !.filename = "f"],
       [NewObject("Undefined", Root) EXCEPT !.filename = "g"],
       [NewObject("Undefined", 2) EXCEPT !.filename = "e"],
       [NewObject("Undefined", 3) EXCEPT !.filename = "h"] >>

InitFiles ==
    /\ dev \in {FreshDevice, FilesDevice}
    /\ devInfo = [artist |-> FALSE, dateAuthored |-> FALSE, cover |-> FALSE]
    /\ lib = NoLibrary
    /\ call = NoCall
    /\ trace = <<>>
    /\ hist = [built |-> FALSE, reported |-> <<>>, foreign |-> {}, added |-> {}]
    /\ calls = 0
    /\ IdleCli

\* the cli session starts a file command while it has run fewer than this
MaxFileCommands == 2

\* the Command containers of a run of the session layer
MaxTransactions == 5

\* the response types of the device that make an operation throw
ResponseTypes == {"InvalidStorageID", "GeneralError"}

\* the exception a command leaves with: an operation the device refuses
\* throws mtp::InvalidResponseException with the type of the response
Exception(w, type) ==
    IF w.ok THEN [what |-> "", class |-> "none", Type |-> "OK"]
    ELSE IF w.error = ""
    THEN [what |-> type, class |-> "InvalidResponseException", Type |-> type]
    ELSE [what |-> w.error, class |-> "runtime_error", Type |-> "OK"]

\* the response types that tell the outcomes of a command apart
Responses(w) ==
    IF w.ok \/ w.error # "" THEN {"OK"} ELSE ResponseTypes

\* the hint about a locked device
LockedHint == "Your device might be locked or in usb-charging mode"

\* an interactive loop that would give the hint for every invalid response
InteractiveInputHinting(ex) ==
    IF ex.class = "none" THEN <<>>
    ELSE IF ex.class = "InvalidResponseException"
    THEN <<"error: " \o ex.what, LockedHint>>
    ELSE <<"error: " \o ex.what>>

\* Session::InteractiveInput: what the loop prints after the command
InteractiveInput(ex) ==
    IF ex.class = "none" THEN <<>>
    ELSE IF ex.class = "InvalidResponseException"
    THEN <<"error: " \o ex.what>>
         \o (IF ex.Type = "InvalidStorageID" THEN <<LockedHint>> ELSE <<>>)
    ELSE <<"error: " \o ex.what>>

\* a file command has ended: an exception reaches the interactive loop
FileCommand(w, cmd, path, type) ==
    /\ calls < MaxFileCommands
    /\ calls' = calls + 1
    /\ dev' = w.dev
    /\ trace' = w.trace
    /\ cliCall' = [id |-> IF w.ok THEN w.ret ELSE NoObject, result |-> IF w.ok THEN "done"
                              ELSE IF w.error = "" THEN "failed" ELSE w.error,
                   cmd |-> cmd,
                   issued |-> Len(w.trace),
                   thrown |-> Exception(w, type),
                   printed |-> InteractiveInput(Exception(w, type)),
                   path |-> path]
    /\ UNCHANGED <<devInfo, lib, call, hist, cli, usb, winusb>>

\* mkpath <path>: Resolve(path, true)
CallMakePath ==
    \E path \in Paths :
        \E f \in Fuses(Resolve(W(0), cli, path, TRUE)) :
            \E type \in Responses(Resolve(W(f), cli, path, TRUE)) :
                FileCommand(Resolve(W(f), cli, path, TRUE), "mkpath", path,
                            type)

\* a command that resolves its path: Resolve(path, false)
CallResolve ==
    \E path \in Paths :
        FileCommand(Resolve(W(0), cli, path, FALSE), "resolve", path, "OK")

\* the local files put: [path, size], every one a regular file
LocalFiles == { [size |-> 6, path |-> <<"d", "/", "hello.txt">>],
                [size |-> 0, path |-> <<"f">>] }

\* Session::GetFilename(path): what follows the last slash
GetFilename(path) ==
    IF \E i \in DOMAIN path : path[i] = "/"
    THEN Name(SubSeq(path,
            1 + CHOOSE i \in DOMAIN path :
                    /\ path[i] = "/"
                    /\ \A j \in DOMAIN path : path[j] = "/" => j <= i,
            Len(path)))
    ELSE Name(path)

\* ObjectFormat::Any, the format Put is given when none is asked for
AnyFormat == "Any"

\* ObjectFormatFromFilename(src)
ObjectFormatFromFilename(path) ==
    IF path # <<>> /\ path[Len(path)] = "hello.txt" THEN "Text"
    ELSE "Undefined"

\* an operation that threw was issued all the same
Attempted(w, run, op) ==
    IF w.ok /\ ~run.ok
    THEN [run EXCEPT !.trace = Append(@, [op |-> op, failed |-> TRUE])]
    ELSE run

\* Session::DeleteObject(objectId): the handle is never used again
DeleteObject(w, objectId) ==
    IF ~w.ok THEN w
    ELSE IF w.fuse = 1 THEN Throw(w)
    ELSE [Burn(w) EXCEPT
            !.dev[objectId] = NewObject("Deleted", NoObject),
            !.trace = Append(@, [id |-> objectId, op |-> "DeleteObject",
                                 failed |-> FALSE])]

\* Session::SendObjectInfo(oi, storage, parentId): the device makes the
\* object and returns its handle
SendObjectInfo(w, oi, parentId) ==
    IF ~w.ok THEN w
    ELSE IF w.fuse = 1 THEN Throw(w)
    ELSE [Burn(w) EXCEPT
            !.dev = Append(@, [NewObject(oi.ObjectFormat, parentId)
                                 EXCEPT !.filename = oi.Filename]),
            !.ret = Len(w.dev) + 1,
            !.trace = Append(@, [parent |-> parentId, op |-> "SendObjectInfo",
                                 failed |-> FALSE, oi |-> oi])]

\* Put: try { DeleteObject(ResolveObjectChild(parentId, filename)) } catch { }
DeleteFound(w, found) ==
    IF ~found.ok THEN w
    ELSE [Attempted(w, DeleteObject(w, found.ret), "DeleteObject")
            EXCEPT !.ok = TRUE]

\* an ObjectInfo that would be named after the local file whatever the target
ObjectInfoOfSource(src, targetFilename, format) ==
    [ObjectFormat |-> IF format = AnyFormat THEN ObjectFormatFromFilename(src.path)
                      ELSE format,
     Filename |-> GetFilename(src.path),
     ObjectCompressedSize |-> src.size]

\* Put: the msg::ObjectInfo of a regular file
ObjectInfo(src, targetFilename, format) ==
    [ObjectFormat |-> IF format = AnyFormat THEN ObjectFormatFromFilename(src.path)
                      ELSE format,
     Filename |-> IF targetFilename = "" THEN GetFilename(src.path)
                  ELSE targetFilename,
     ObjectCompressedSize |-> src.size]

\* Put: _session->SendObject(stream)
PutObject(w) == Attempted(w, SendObject(w), "SendObject")

\* Put: _session->SendObjectInfo(oi, GetUploadStorageId(), parentId)
PutObjectInfo(w, oi, parentId) ==
    PutObject(Attempted(w, SendObjectInfo(w, oi, parentId), "SendObjectInfo"))

\* Session::Put(parentId, src, targetFilename, format), src a regular file
Put(w, parentId, src, targetFilename, format) ==
    PutObjectInfo(
        DeleteFound(w, ResolveObjectChild(w, parentId,
            ObjectInfo(src, targetFilename, format).Filename)),
        ObjectInfo(src, targetFilename, format), parentId)

\* the directories a file can be put in
Directories(d) ==
    {Root} \cup {i \in DOMAIN d : d[i].fmt = Association}

\* a put has ended
PutCommand(w, parentId, src, targetFilename, format, type) ==
    /\ calls < MaxFileCommands
    /\ calls' = calls + 1
    /\ dev' = w.dev
    /\ trace' = w.trace
    /\ cliCall' = [format |-> format, id |-> parentId,
                   result |-> IF w.ok THEN "done" ELSE "failed",
                   cmd |-> "put", issued |-> Len(w.trace),
                   thrown |-> Exception(w, type),
                   printed |-> InteractiveInput(Exception(w, type)), path |-> <<>>,
                   oi |-> ObjectInfo(src, targetFilename, format),
                   src |-> src,
                   targetFilename |-> targetFilename]
    /\ UNCHANGED <<devInfo, lib, call, hist, cli, usb, winusb>>

\* put <file> <dir>, for a regular file
CallPut ==
    \E parentId \in Directories(dev), src \in LocalFiles,
       targetFilename \in {"", "f"}, format \in {AnyFormat, "Undefined"} :
        /\ format # AnyFormat => targetFilename = ""
        /\ \E f \in Fuses(Put(W(0), parentId, src, targetFilename, format)) :
            \E type \in Responses(Put(W(f), parentId, src, targetFilename,
                                       format)) :
                PutCommand(Put(W(f), parentId, src, targetFilename, format),
                           parentId, src, targetFilename, format, type)

\* put <file>, for a regular file that has the name of a directory of the
\* device, or another name: Put(_cd or the directory given, src)
CallPutFile ==
    \E parentId \in Directories(dev),
       src \in { [size |-> 1, path |-> <<"c">>], [size |-> 2, path |-> <<"e">>] } :
        \E f \in Fuses(Put(W(0), parentId, src, "", AnyFormat)) :
            \E type \in Responses(Put(W(f), parentId, src, "", AnyFormat)) :
                PutCommand(Put(W(f), parentId, src, "", AnyFormat),
                           parentId, src, "", AnyFormat, type)

NextPut ==
    \/ CallPutFile
    \/ CallMakePath

SpecPut == InitFiles /\ [][NextPut]_vars

\* List: one printed line
Line(d, objectId, extended, prefix) ==
    [id |-> objectId, extended |-> extended,
     text |-> prefix \o d[objectId].filename]

\* List: the fast path, one line for each element of the property list
ListProperties(d, handles, prefix) ==
    [i \in DOMAIN handles |-> Line(d, handles[i], FALSE, prefix)]

RECURSIVE ListHandles(_, _, _, _, _, _)
\* a List that would descend into every object whatever its format
ListObjectOfAnyFormat(d, objectId, extended, recursive, prefix, fail) ==
    IF objectId \in fail.name THEN <<>>
    ELSE <<Line(d, objectId, extended, prefix)>>
         \o (IF recursive /\ objectId \notin fail.format
             THEN ListHandles(d, Children(d, objectId), extended, recursive,
                              prefix \o d[objectId].filename \o "/", fail)
             ELSE <<>>)

\* List: the body of the loop; a read of the object that throws ends it
ListObject(d, objectId, extended, recursive, prefix, fail) ==
    IF objectId \in fail.name THEN <<>>
    ELSE <<Line(d, objectId, extended, prefix)>>
         \o (IF recursive /\ objectId \notin fail.format
                /\ d[objectId].fmt = Association
             THEN ListHandles(d, Children(d, objectId), extended, recursive,
                              prefix \o d[objectId].filename \o "/", fail)
             ELSE <<>>)

\* List: the loop over the handles of the parent
ListHandles(d, handles, extended, recursive, prefix, fail) ==
    IF handles = <<>> THEN <<>>
    ELSE ListObject(d, Head(handles), extended, recursive, prefix, fail)
         \o ListHandles(d, Tail(handles), extended, recursive, prefix, fail)

\* Session::List(parent, extended, recursive, prefix): the lines printed
List(d, parent, extended, recursive, supported, fail) ==
    IF ~extended /\ ~recursive /\ supported
    THEN ListProperties(d, Children(d, parent), "")
    ELSE ListHandles(d, Children(d, parent), extended, recursive, "", fail)

\* the objects whose name, and whose format, the device fails to tell
Failures == { [name |-> {}, format |-> {}], [name |-> {2}, format |-> {}],
              [name |-> {}, format |-> {1}] }

\* ls, lsext, ls-r and lsext-r of a directory
CallList ==
    \E parent \in Directories(dev), extended, recursive, supported \in BOOLEAN,
       fail \in Failures :
        /\ (extended \/ recursive) => supported
        /\ ~recursive => fail = [name |-> {}, format |-> {}]
        /\ calls < MaxFileCommands
        /\ calls' = calls + 1
        /\ trace' = <<>>
        /\ cliCall' = [id |-> parent, result |-> "done", cmd |-> "ls",
                       issued |-> 0, thrown |-> Exception(W(0), "OK"), printed |-> InteractiveInput(Exception(W(0), "OK")),
                       lines |-> List(dev, parent, extended, recursive,
                                      supported, fail),
                       path |-> <<>>,
                       recursive |-> recursive,
                       fail |-> fail]
        /\ UNCHANGED <<dev, devInfo, lib, call, hist, cli, usb, winusb>>

NextFiles ==
    \/ CallMakePath
    \/ CallResolve
    \/ CallPut
    \/ CallList

SpecFiles == InitFiles /\ [][NextFiles]_vars

----------------------------------------------------------------------------
(* The Windows usb::Device *)

\* the bulk endpoints of the interface: [address, maxPacketSize]
BulkOut == [address |-> 1, maxPacketSize |-> 512]
BulkIn == [address |-> 129, maxPacketSize |-> 512]

\* the sizes of the streams written
Sizes == {0, 6, 512, 1024, 1030}

\* the timeouts given
Timeouts == {0, 1000}

\* what WinUsb_ReadPipe does in one call of ReadBulk, call after call
Reads ==
    LET failed(e) == [bytes |-> "z", result |-> FALSE, bytesRead |-> 0,
                      lastError |-> e]
        read(n, b) == [bytes |-> b, result |-> TRUE, bytesRead |-> n,
                       lastError |-> ""]
        full(b) == read(BufferSize(BulkIn), b)
        last == {failed("ERROR_SEM_TIMEOUT"), failed("ERROR_GEN_FAILURE"),
                 read(0, "z"), read(12, "z")}
    IN {<<l>> : l \in last} \cup {<<full("a"), l>> : l \in last}
        \cup {<<full("a"), full("b"), l>> : l \in last}
        \cup {<<read(12, "a"), read(12, "b")>>, <<read(0, "a"), full("b")>>}

\* a member function of the device has returned or thrown
DeviceCall(d) ==
    /\ winusb.alive
    /\ calls < MaxCalls
    /\ calls' = calls + 1
    /\ winusb' = d
    /\ UNCHANGED <<dev, devInfo, lib, call, trace, hist, cli, cliCall, usb>>

CallWriteBulk ==
    \E size \in Sizes, timeout \in Timeouts, result \in BOOLEAN,
       bytesWritten \in Sizes :
        /\ bytesWritten <= size
        /\ ~result => bytesWritten = 0
        /\ DeviceCall(WriteBulk(
                Enter(winusb, "WriteBulk", <<BulkOut, size, timeout>>),
                BulkOut, size, timeout, result, bytesWritten))

CallReadBulk ==
    \E timeout \in Timeouts, reads \in Reads :
        DeviceCall(ReadBulk(Enter(winusb, "ReadBulk", <<BulkIn, reads>>),
                            BulkIn, timeout, reads))

CallClearHalt ==
    \E ep \in {BulkIn, BulkOut} :
        DeviceCall(ClearHalt(Enter(winusb, "ClearHalt", <<ep>>), ep))

CallReset == DeviceCall(Reset(Enter(winusb, "Reset", <<>>)))

\* the last DevicePtr is dropped
CallDestroy == DeviceCall(Destroy(Enter(winusb, "~Device", <<>>)))

NextUsb ==
    \/ CallWriteBulk
    \/ CallReadBulk
    \/ CallClearHalt
    \/ CallReset
    \/ CallDestroy

\* the device has been opened; nothing else has run
InitUsb == IdleLibrary /\ IdleCli

SpecUsb == InitUsb /\ [][NextUsb]_vars

----------------------------------------------------------------------------
(* Device properties set as PTP strings.  A string is its sequence of       *)
(* character codes.                                                         *)

\* toupper(c)
ToUpper(c) == IF c >= 97 /\ c <= 122 THEN c - 32 ELSE c

\* for (char c : s) { push_back(c); push_back(0); }
Utf16(s) ==
    [i \in 1..(2 * Len(s)) |-> IF i % 2 = 1 THEN s[(i + 1) \div 2] ELSE 0]

\* SetDeviceProp: guid_with_braces; an empty string has '\0' at [0]
WithBraces(guidString) ==
    IF guidString # <<>> /\ guidString[1] = 123 THEN guidString
    ELSE <<123>> \o guidString \o <<125>>

\* a guid_data whose first byte would count the characters alone
GuidDataUncounted(guid_with_braces) ==
    <<Len(guid_with_braces) % 256>> \o Utf16(guid_with_braces) \o <<0, 0>>

\* SetDeviceProp: guid_data; push_back keeps the low byte of size() + 1
GuidData(guid_with_braces) ==
    <<(Len(guid_with_braces) + 1) % 256>> \o Utf16(guid_with_braces) \o <<0, 0>>

\* Session::SetDeviceProp(propCodeHex, guidString): a failure of
\* SetDeviceProperty is caught and reported
SetDeviceProp(propCode, guidString, fails) ==
    [Finish(DataOperation([ops |-> <<>>, result |-> "running"], propCode,
                GuidData([i \in DOMAIN WithBraces(guidString) |->
                            ToUpper(WithBraces(guidString)[i])]),
                fails))
        EXCEPT !.result = "done"]

\* set_zune_guid_aftl: FormatGuidWithBraces(guid)
FormatGuidWithBraces(guid) ==
    <<123>> \o [i \in DOMAIN guid |-> ToUpper(guid[i])] \o <<125>>

\* set_zune_guid_aftl: EncodeGuidAsUtf16(guid_with_braces)
EncodeGuidAsUtf16(guid_with_braces) ==
    <<(Len(guid_with_braces) + 1) % 256>> \o Utf16(guid_with_braces) \o <<0, 0>>

\* an operation in a try block of its own: the next one is issued all the same
Tried(run) == [run EXCEPT !.result = "running"]

\* set_zune_guid_aftl: main from the encoding of the GUID on
SetZuneGuid(guid_data, fails) ==
    Finish(Tried(Operation(
        Tried(DataOperation(
            Tried(DataOperation([ops |-> <<>>, result |-> "running"],
                                "0xd401", guid_data, 1 \in fails)),
            "0xd220", guid_data, 2 \in fails)),
        "GetDeviceProperty(0xd220)", 3 \in fails)))

\* set_zune_guid_aftl: main; nothing is sent without a GUID, without a
\* device, or when Authenticate throws
Main(mac_guid, found, authenticated, fails) ==
    IF mac_guid = <<>> \/ ~found THEN [ops |-> <<>>, result |-> "1"]
    ELSE IF ~authenticated THEN [ops |-> <<>>, result |-> "1"]
    ELSE SetZuneGuid(EncodeGuidAsUtf16(FormatGuidWithBraces(mac_guid)), fails)

\* the strings given as GUIDs: none, one in braces, one in lower case, and
\* strings of 252, 253 and 254 characters
GuidStrings ==
    { <<>>, <<123, 97, 98, 125>>, <<97, 49>>, [i \in 1..252 |-> 102],
      [i \in 1..253 |-> 102], <<123>> \o [i \in 1..253 |-> 70] }

\* a command that sets a device property has ended
PropCommand(cmd, guid, run) ==
    /\ calls < MaxFileCommands
    /\ calls' = calls + 1
    /\ usb' = usb \o run.ops
    /\ cliCall' = [guid |-> guid, result |-> run.result,
                   cmd |-> cmd, issued |-> Len(run.ops)]
    /\ UNCHANGED <<dev, devInfo, lib, call, trace, hist, cli, winusb>>

\* set-device-prop <code> <guid>
CallSetDeviceProp ==
    \E guidString \in GuidStrings, fails \in BOOLEAN :
        PropCommand("SetDeviceProp", guidString,
                    SetDeviceProp("0xd401", guidString, fails))

\* a run of set_zune_guid_aftl
CallSetZuneGuid ==
    \E mac_guid \in GuidStrings, found, authenticated \in BOOLEAN,
       fails \in SUBSET {1, 2, 3} :
        /\ ~(found /\ authenticated) => fails = {}
        /\ ~found => authenticated
        /\ PropCommand("set_zune_guid", mac_guid,
                       Main(mac_guid, found, authenticated, fails))

NextProps ==
    \/ CallSetDeviceProp
    \/ CallSetZuneGuid

SpecProps == InitUsb /\ [][NextProps]_vars

----------------------------------------------------------------------------
(* The construction of cli::Session, its trusted app and its commands.  A   *)
(* registered command is <<name, number of arguments>>.                     *)

\* Session::Session: the commands registered for every device
BaseCommands ==
    { <<"help", 0>>, <<"ls", 0>>, <<"ls", 1>>, <<"ls-r", 0>>,
      <<"ls-r", 1>>, <<"lsext", 0>>, <<"lsext", 1>>, <<"lsext-r", 0>>,
      <<"lsext-r", 1>>, <<"ls-objects", 1>>, <<"put", 2>>, <<"put", 1>>,
      <<"flash", 1>>, <<"get", 1>>, <<"get", 2>>, <<"get-id", 1>>,
      <<"get-id", 2>>, <<"get-thumb", 1>>, <<"get-thumb", 2>>,
      <<"cat", 1>>, <<"quit", 0>>, <<"exit", 0>>, <<"cd", 1>>,
      <<"storage", 1>>, <<"pwd", 0>>, <<"rm", 1>>, <<"rm-id", 1>>,
      <<"mkdir", 1>>, <<"mkpath", 1>>, <<"type", 1>>, <<"rename", 2>>,
      <<"storage-list", 0>>, <<"properties", 1>>,
      <<"device-properties", 0>>, <<"set-device-prop", 2>>,
      <<"enable-wireless", 0>>, <<"disable-wireless", 0>>,
      <<"list-wifi-networks", 0>>, <<"set-wifi-network", 2>>,
      <<"device-info", 0>>, <<"storage-info", 1>>, <<"get-refs", 1>>,
      <<"test-property-list", 1>>, <<"test-lexer", 1>> }

\* Session::Session: if (Library::Supported(_session))
LibraryCommands == { <<"zune-init", 0>>, <<"zune-import", 1>> }

\* Session::Session: if (GetDeviceInfo().Supports(OperationCode::RebootDevice))
RebootCommands == { <<"device-reboot", 0>> }

\* no cli::Session yet
NoSession ==
    [trustedApp |-> FALSE, keys |-> FALSE, _cd |-> Root, authenticated |-> FALSE,
     constructed |-> FALSE, _deviceRSAModulus |-> <<>>, _commands |-> {}]

\* a cli::Session under construction or in use, and the operations and
\* messages of the call made on it
Member(c) == [c |-> c, ops |-> <<>>, thrown |-> "", printed |-> <<>>,
              executed |-> <<>>]

\* TrustedApp::Create(session, mtpzDataPath): no trusted app for a device
\* that is not probed as MTPZ; keys when the data file holds them
Create(m, probed, keysInFile) ==
    [m EXCEPT !.c.trustedApp = probed, !.c.keys = probed /\ keysInFile]

\* the handshake of TrustedApp::Authenticate: 0x9101 (certificate of the
\* device), 0x9102, 0x9103, 0x9104; failAt is the operation that throws
Handshake(m, modulus, failAt) ==
    [m EXCEPT
        !.ops = [i \in 1..(IF failAt = 0 THEN 4 ELSE failAt) |->
                    [ok |-> i # failAt,
                     code |-> <<"0x9101", "0x9102", "0x9103", "0x9104">>[i]]],
        !.thrown = IF failAt = 0 THEN "" ELSE "mtpz",
        !.c._deviceRSAModulus = IF failAt = 1 THEN @ ELSE modulus,
        !.c.authenticated = failAt = 0]

\* an Authenticate that would shake hands on every call
AuthenticateAgain(m, modulus, failAt) ==
    IF ~m.c.keys THEN m
    ELSE Handshake(m, modulus, failAt)

\* TrustedApp::Authenticate(): nothing without keys, and nothing once the
\* handshake is done
Authenticate(m, modulus, failAt) ==
    IF ~m.c.keys \/ m.c.authenticated THEN m
    ELSE Handshake(m, modulus, failAt)

\* a constructor that would let the exception of Authenticate leave
TryAuthenticateUncaught(m, tried) ==
    IF ~m.c.trustedApp THEN m ELSE tried

\* Session::Session: try { if (_trustedApp) _trustedApp->Authenticate(); }
\* catch { error(...) }
TryAuthenticate(m, tried) ==
    IF ~m.c.trustedApp THEN m
    ELSE IF tried.thrown = "" THEN tried
    ELSE [tried EXCEPT !.thrown = "",
                       !.printed = Append(@, "mtpz authentication failed")]

\* Session::Session: the AddCommand calls; an exception that has left the
\* constructor has left before them
AddCommands(m, librarySupported, rebootSupported) ==
    IF m.thrown # "" THEN m
    ELSE [m EXCEPT
            !.c.constructed = TRUE,
            !.c._commands = BaseCommands
                \cup (IF librarySupported THEN LibraryCommands ELSE {})
                \cup (IF rebootSupported THEN RebootCommands ELSE {})]

\* Session::Session(session, showPrompt)
Session(m, modulus, failAt, librarySupported, rebootSupported) ==
    AddCommands(TryAuthenticate(m, Authenticate(m, modulus, failAt)),
                librarySupported, rebootSupported)

\* ICommand::Execute(tokens): the command runs, and may throw
Execute(m, command, tokens, throws) ==
    [m EXCEPT !.executed = Append(@, <<command, tokens>>),
              !.thrown = IF throws THEN "command failed" ELSE ""]

\* the commands of the name, the range of lower_bound and upper_bound
CommandsNamed(c, cmdName) == {cmd \in c._commands : cmd[1] = cmdName}

\* a ProcessCommand that would run the first command of the name
ProcessCommandOfAnyArity(m, tokens, throws) ==
    IF tokens = <<>> THEN [m EXCEPT !.thrown = "no token passed to ProcessCommand"]
    ELSE IF CommandsNamed(m.c, Head(tokens)) = {}
    THEN [m EXCEPT !.thrown = "invalid command"]
    ELSE Execute(m, CHOOSE cmd \in CommandsNamed(m.c, Head(tokens)) : TRUE,
                 Tail(tokens), throws)

\* Session::ProcessCommand(Tokens &&)
ProcessCommand(m, tokens, throws) ==
    IF tokens = <<>> THEN [m EXCEPT !.thrown = "no token passed to ProcessCommand"]
    ELSE IF CommandsNamed(m.c, Head(tokens)) = {}
    THEN [m EXCEPT !.thrown = "invalid command"]
    ELSE IF \E cmd \in CommandsNamed(m.c, Head(tokens)) :
                cmd[2] = Len(Tail(tokens))
    THEN Execute(m, CHOOSE cmd \in CommandsNamed(m.c, Head(tokens)) :
                        cmd[2] = Len(Tail(tokens)),
                 Tail(tokens), throws)
    ELSE [m EXCEPT !.thrown = "invalid argument count"]

\* the RSA moduli of the devices
Moduli == { <<1, 2>>, <<3, 4>> }

\* the lines typed
TokenLists ==
    { <<>>, <<"ls">>, <<"ls", "a">>, <<"ls", "a", "b">>, <<"put", "f">>,
      <<"put", "f", "a">>, <<"put">>, <<"nope">>, <<"nope", "a">>,
      <<"zune-init">>, <<"device-reboot", "now">>, <<"mkpath", "a/b">> }

InitSession ==
    /\ IdleLibrary
    /\ cli = NoSession
    /\ cliCall = NoCommand
    /\ usb = <<>>
    /\ winusb = OpenedDevice

\* a call on the session has ended
SessionCall(cmd, args, m) ==
    /\ calls < MaxCalls
    /\ calls' = calls + 1
    /\ cli' = m.c
    /\ usb' = usb \o m.ops
    /\ cliCall' = [result |-> IF m.thrown = "" THEN "done" ELSE m.thrown,
                   cmd |-> cmd, issued |-> Len(m.ops), args |-> args,
                   printed |-> m.printed, executed |-> m.executed]
    /\ UNCHANGED <<dev, devInfo, lib, call, trace, hist, winusb>>

\* cli::Session is constructed
CallSession ==
    /\ ~cli.constructed
    /\ \E probed, keysInFile, librarySupported, rebootSupported \in BOOLEAN,
          modulus \in Moduli, failAt \in 0..4 :
        /\ ~(probed /\ keysInFile) => failAt = 0 /\ modulus = <<1, 2>>
        /\ ~probed => ~keysInFile
        /\ SessionCall("Session",
                <<probed, keysInFile, librarySupported, rebootSupported>>,
                Session(Create(Member(cli), probed, keysInFile), modulus,
                        failAt, librarySupported, rebootSupported))

\* Authenticate is called on the trusted app of the session
CallAuthenticate ==
    /\ cli.constructed /\ cli.trustedApp
    /\ \E modulus \in Moduli, failAt \in 0..4 :
        /\ (~cli.keys \/ cli.authenticated) => failAt = 0 /\ modulus = <<1, 2>>
        /\ SessionCall("Authenticate", <<>>,
                       Authenticate(Member(cli), modulus, failAt))

\* a line is typed
CallProcessCommand ==
    /\ cli.constructed
    /\ \E tokens \in TokenLists, throws \in BOOLEAN :
        SessionCall("ProcessCommand", tokens,
                    ProcessCommand(Member(cli), tokens, throws))

NextSession ==
    \/ CallSession
    \/ CallAuthenticate
    \/ CallProcessCommand

SpecSession == InitSession /\ [][NextSession]_vars

----------------------------------------------------------------------------
(* The transaction ids of the MTP session.  An id is 32 bits wide, kept as  *)
(* <<high 16 bits, low 16 bits>>.                                           *)

\* 2^16
Half == 65536

\* id + 1 in 32 bits
Increment(id) ==
    IF id[2] = Half - 1 THEN <<(id[1] + 1) % Half, 0>> ELSE <<id[1], id[2] + 1>>

\* the session layer: every Command container takes the id of the counter,
\* which is then incremented, with no handling of the wrap
Transaction(s, code) ==
    [s EXCEPT !.nextTransactionId = Increment(@),
              !.sent = Append(@, [code |-> code, txid |-> s.nextTransactionId])]

\* OpenSession (0x1002) is the transaction 0 of the session
OpenSession(s) ==
    Transaction([s EXCEPT !.opened = TRUE, !.nextTransactionId = <<0, 0>>],
                "0x1002")

\* the operations of an open session
OperationCodes == {"0x1004", "0x1007", "0x9801"}

\* the ids the counter of an open session starts the run with
NextTransactionIds ==
    { <<0, 1>>, <<0, Half - 2>>, <<Half - 1, Half - 3>>, <<Half - 1, Half - 1>> }

\* a session not open yet, or a session that has been open for a while
InitTransactions ==
    /\ IdleLibrary
    /\ cliCall = NoCommand
    /\ usb = <<>>
    /\ winusb = OpenedDevice
    /\ \/ cli = [sent |-> <<>>, nextTransactionId |-> <<0, 0>>, opened |-> FALSE]
       \/ \E id \in NextTransactionIds :
            cli = [sent |-> <<>>, nextTransactionId |-> id, opened |-> TRUE]

\* the session is opened
CallOpenSession ==
    /\ ~cli.opened
    /\ cli' = OpenSession(cli)
    /\ UNCHANGED <<dev, devInfo, lib, call, trace, hist, calls, cliCall, usb,
                   winusb>>

\* an operation of the open session
CallTransaction ==
    /\ cli.opened
    /\ Len(cli.sent) < MaxTransactions
    /\ \E code \in OperationCodes : cli' = Transaction(cli, code)
    /\ UNCHANGED <<dev, devInfo, lib, call, trace, hist, calls, cliCall, usb,
                   winusb>>

NextTransactions ==
    \/ CallOpenSession
    \/ CallTransaction

SpecTransactions == InitTransactions /\ [][NextTransactions]_vars

----------------------------------------------------------------------------
(* The loops of ListWiFiNetworks and SetWiFiNetwork over the scan data.  An *)
(* offset counts from 0, as in the code; reads are the offsets of the bytes *)
(* a loop has read.                                                         *)

\* a loop about to start
NoScan ==
    [offset |-> 0, reads |-> {}, found |-> FALSE, networks |-> {},
     exhausted |-> FALSE]

\* the byte at an offset; the offset is in the buffer whenever the loops of
\* the code read it
ByteAt(data, offset) == IF offset < Len(data) THEN data[offset + 1] ELSE 0

\* n bytes are read from the offset on
Read(s, offset, n) ==
    [s EXCEPT !.reads = @ \cup {offset + i : i \in 0..(n - 1)}]

\* *reinterpret_cast<const u32*>(data + offset), as <<high 16 bits, low 16
\* bits>>
U32At(data, offset) ==
    << ByteAt(data, offset + 2) + 256 * ByteAt(data, offset + 3),
       ByteAt(data, offset) + 256 * ByteAt(data, offset + 1) >>

\* ListWiFiNetworks: ssid_len > 0 && ssid_len <= 32
ValidSsidLen(ssid_len) == ssid_len[1] = 0 /\ ssid_len[2] > 0 /\ ssid_len[2] <= 32

\* ListWiFiNetworks: std::string ssid(data + offset + 4, ssid_len)
SsidAtOffset(response, offset, len) ==
    [i \in 1..len |-> ByteAt(response, offset + 4 + (i - 1))]

\* ListWiFiNetworks: no character c with c < 32 || c > 126
Printable(ssid) == \A i \in DOMAIN ssid : ssid[i] >= 32 /\ ssid[i] <= 126

\* ListWiFiNetworks: field_minus4 is read if (offset >= 4)
ReadFieldBefore(s) ==
    IF s.offset >= 4 THEN Read(s, s.offset - 4, 4) ELSE s

\* ListWiFiNetworks: a valid entry is inserted and skipped
InsertNetwork(s, ssid) ==
    [ReadFieldBefore(s) EXCEPT !.networks = @ \cup {ssid},
                               !.offset = @ + 4 + Len(ssid)]

\* ListWiFiNetworks: the SSID that is long enough is read and validated
ScanSsid(s, ssid) ==
    IF Printable(ssid)
    THEN InsertNetwork(Read(s, s.offset + 4, Len(ssid)), ssid)
    ELSE [Read(s, s.offset + 4, Len(ssid)) EXCEPT !.offset = @ + 1]

\* a loop that would take the SSID without looking at the size of the
\* response
ScanAtUnchecked(response, s, ssid_len) ==
    IF ValidSsidLen(ssid_len)
    THEN ScanSsid(s, SsidAtOffset(response, s.offset, ssid_len[2]))
    ELSE [s EXCEPT !.offset = @ + 1]

\* ListWiFiNetworks: the body of the loop, ssid_len read
ScanAt(response, s, ssid_len) ==
    IF ValidSsidLen(ssid_len) /\ s.offset + 4 + ssid_len[2] <= Len(response)
    THEN ScanSsid(s, SsidAtOffset(response, s.offset, ssid_len[2]))
    ELSE [s EXCEPT !.offset = @ + 1]

RECURSIVE ScanNetworks(_, _, _)
\* ListWiFiNetworks: while (offset + 12 <= response.size()); steps are the
\* iterations the loop may still make
ScanNetworks(response, s, steps) ==
    IF ~(s.offset + 12 <= Len(response)) THEN s
    ELSE IF steps = 0 THEN [s EXCEPT !.exhausted = TRUE]
    ELSE ScanNetworks(response,
                      ScanAt(response, Read(s, s.offset, 4),
                             U32At(response, s.offset)),
                      steps - 1)

\* Session::ListWiFiNetworks(): a response that is not empty is parsed, a
\* failure of GetWiFiNetworkList is reported
ListWiFiNetworks(response, fails) ==
    IF fails
    THEN [ops |-> << [ok |-> FALSE, code |-> "GetWiFiNetworkList"] >>,
          result |-> "failed",
          scan |-> NoScan]
    ELSE [ops |-> << [ok |-> TRUE, code |-> "GetWiFiNetworkList"] >>,
          result |-> "done",
          scan |-> IF response # <<>>
                   THEN ScanNetworks(response, NoScan, Len(response) + 1)
                   ELSE NoScan]

\* SetWiFiNetwork: the entry named by the SSID at the offset is read
ReadFlags(s) == [Read(s, (s.offset - 40) + 16, 12) EXCEPT !.found = TRUE]

\* SetWiFiNetwork: the body of the search loop, memcmp made
SearchAt(scanData, ssid, s) ==
    IF /\ SsidAt(scanData, ssid, s.offset)
       /\ s.offset >= 40
       /\ ((s.offset - 40) + 16) + 12 <= Len(scanData)
    THEN ReadFlags(s)
    ELSE [s EXCEPT !.offset = @ + 1]

RECURSIVE SearchSsid(_, _, _, _)
\* SetWiFiNetwork: while (offset + ssid.length() <= scanData.size())
SearchSsid(scanData, ssid, s, steps) ==
    IF s.found \/ ~(s.offset + Len(ssid) <= Len(scanData)) THEN s
    ELSE IF steps = 0 THEN [s EXCEPT !.exhausted = TRUE]
    ELSE SearchSsid(scanData, ssid,
                    SearchAt(scanData, ssid, Read(s, s.offset, Len(ssid))),
                    steps - 1)

\* Session::SetWiFiNetwork(ssid, password) with the search it makes in the
\* scan data it has got
SetWiFiNetworkSearching(c, ssid, scanData, encryptedPassword, failAt) ==
    [ops |-> SetWiFiNetwork(c, ssid, scanData, encryptedPassword, failAt).ops,
     result |-> SetWiFiNetwork(c, ssid, scanData, encryptedPassword, failAt).result,
     scan |-> IF KeysLoaded(c) /\ failAt # 1
              THEN SearchSsid(scanData, ssid, NoScan, Len(scanData) + 2)
              ELSE NoScan]

\* what the device answers to GetWiFiNetworkList
Responses9223 ==
    { <<>>,
      Le32(3) \o <<110, 101, 116>> \o Zeros(8),
      Le32(32) \o [i \in 1..8 |-> 97],
      Le32(2) \o <<97, 200>> \o Zeros(6),
      <<3, 0, 0, 1>> \o <<110, 101, 116>> \o Zeros(8),
      Zeros(4) \o Le32(1) \o <<126>> \o Le32(2) \o <<32, 33>> \o Zeros(12),
      Zeros(3) \o Le32(32) \o [i \in 1..32 |-> 98],
      Zeros(12) \o Le32(32) \o [i \in 1..31 |-> 98],
      ScanEntry(<<110, 101, 116>>),
      Zeros(10) \o <<110, 101, 116>>,
      ScanEntry(<<110, 101>>) }

\* a command that scans has run
ScanCommand(cmd, ssid, data, run) ==
    /\ Len(usb) < MaxUsbOps
    /\ usb' = usb \o run.ops
    /\ cliCall' = [data |-> data, result |-> run.result, ssid |-> ssid,
                   cmd |-> cmd, issued |-> Len(run.ops), scan |-> run.scan]
    /\ UNCHANGED <<cli, winusb, libVars>>

CallListWiFiNetworks ==
    \E response \in Responses9223, fails \in BOOLEAN :
        ScanCommand("ListWiFiNetworks", <<>>, response,
                    ListWiFiNetworks(response, fails))

CallSetWiFiNetworkSearching ==
    \E ssid \in Ssids, scanData \in Responses9223, failAt \in {0, 1, 4} :
        ScanCommand("SetWiFiNetwork", ssid, scanData,
                    SetWiFiNetworkSearching(cli, ssid, scanData,
                                            [i \in 1..128 |-> 171], failAt))

NextScans ==
    \/ CallListWiFiNetworks
    \/ CallSetWiFiNetworkSearching

SpecScans == InitWireless /\ [][NextScans]_vars

\* the directories the last command created
Created == {i \in DOMAIN trace : trace[i].op = "CreateDirectory"}

\* Resolve finds the object
ResolvesTo(again, id) == again.ok /\ again.ret = id

\* C12: Resolve(path, true), the mkpath command, creates each missing
\* component of the path as a child of the component resolved just before
\* it, so that afterwards Resolve(path, false) succeeds and returns the same
\* object, and a second mkpath of the path creates nothing
MakePathThenResolves ==
    (cliCall.cmd = "mkpath" /\ cliCall.result = "done") =>
        /\ ResolvesTo(Resolve(W(0), cli, cliCall.path, FALSE), cliCall.id)
        /\ Resolve(W(0), cli, cliCall.path, TRUE).trace = <<>>

\* the child of the object that has the name, NoObject when it has none
ChildNamed(d, id, name) ==
    IF \E i \in DOMAIN d : d[i].parent = id /\ d[i].filename = name
    THEN CHOOSE i \in DOMAIN d :
            /\ d[i].parent = id /\ d[i].filename = name
            /\ \A j \in DOMAIN d :
                (d[j].parent = id /\ d[j].filename = name) => i <= j
    ELSE NoObject

RECURSIVE Lookup(_, _, _)
\* the object the components name from the object on, NoObject when a
\* component is missing
Lookup(d, id, entities) ==
    IF id = NoObject \/ entities = <<>> THEN id
    ELSE IF Head(entities) \in {<<>>, <<".">>} THEN Lookup(d, id, Tail(entities))
    ELSE IF Head(entities) = <<".", ".">>
         THEN Lookup(d, IF id = Root THEN NoObject ELSE d[id].parent,
                     Tail(entities))
    ELSE Lookup(d, ChildNamed(d, id, Name(Head(entities))), Tail(entities))

\* a component of the path is missing on the device
Missing(d, path) == Lookup(d, Root, Entities(path)) = NoObject

\* C14: Resolve(path, false) on a path with a component that has no child of
\* that name under the object resolved so far fails with a not-found error
\* that reaches the caller, and creates no object on the device
ResolveMissingFails ==
    [][(cliCall'.cmd = "resolve" /\ Missing(dev, cliCall'.path))
       => (/\ cliCall'.result = "could not find"
           /\ dev' = dev
           /\ trace' = <<>>)]_vars

\* a path with a missing component was resolved
ResolvedMissing ==
    /\ cliCall.cmd = "resolve"
    /\ cliCall.path = <<"a", "/", "b">>
    /\ cliCall.result = "could not find"
    /\ \E i \in DOMAIN dev : dev[i].filename = "a"

\* the operations of the last put that have the name
PutOps(op) == {i \in DOMAIN trace : trace[i].op = op}

\* C13: for a regular local file, Put issues SendObjectInfo with the target
\* filename, the object format and the size of the input stream; SendObject
\* is the next operation after a SendObjectInfo that succeeds, and is not
\* issued when SendObjectInfo fails
PutSendsInfoThenObject ==
    cliCall.cmd = "put" =>
        /\ \A i \in PutOps("SendObjectInfo") :
            /\ ~trace[i].failed =>
                /\ trace[i].oi.Filename =
                       (IF cliCall.targetFilename # ""
                        THEN cliCall.targetFilename
                        ELSE IF cliCall.src.size = 6 THEN "hello.txt" ELSE "f")
                /\ trace[i].oi.ObjectFormat =
                       (IF cliCall.format = AnyFormat
                        THEN ObjectFormatFromFilename(cliCall.src.path)
                        ELSE cliCall.format)
                /\ trace[i].oi.ObjectCompressedSize = cliCall.src.size
                /\ trace[i].parent = cliCall.id
                /\ i < Len(trace) /\ trace[i + 1].op = "SendObject"
            /\ trace[i].failed => PutOps("SendObject") = {}
        /\ \A i \in PutOps("SendObject") :
            i > 1 /\ trace[i - 1].op = "SendObjectInfo"
        /\ cliCall.result = "done" =>
            /\ PutOps("SendObjectInfo") # {}
            /\ PutOps("SendObject") # {}

\* a file was put under a target name over an object of that name
PutUnderTargetName ==
    /\ cliCall.cmd = "put"
    /\ cliCall.result = "done"
    /\ cliCall.targetFilename = "f"
    /\ cliCall.src.size = 6
    /\ PutOps("DeleteObject") # {}

\* a put has failed in SendObjectInfo
PutFailedInSendObjectInfo ==
    /\ cliCall.cmd = "put"
    /\ \E i \in PutOps("SendObjectInfo") : trace[i].failed

RECURSIVE Ancestors(_, _)
\* the objects above an object of the device
Ancestors(d, id) ==
    IF id \notin DOMAIN d \/ d[id].parent \notin DOMAIN d THEN {}
    ELSE {d[id].parent} \cup Ancestors(d, d[id].parent)

\* the objects reached from the parent through directories only
Reached(d, parent) ==
    {i \in DOMAIN d :
        /\ parent = Root \/ parent \in Ancestors(d, i)
        /\ d[i].parent # NoObject
        /\ \A a \in Ancestors(d, i) :
            (parent = Root \/ parent \in Ancestors(d, a) \/ a = parent)
                => d[a].fmt = Association}

\* C15: Session::List with recursive set prints the objects depth first in
\* pre-order: an object before its descendants, all the descendants of an
\* Association before its next sibling, and nothing below an object that is
\* not an Association
ListIsPreOrder ==
    (cliCall.cmd = "ls" /\ cliCall.recursive) =>
        LET lines == cliCall.lines
        IN /\ \A i, j \in DOMAIN lines :
                lines[i].id \in Ancestors(dev, lines[j].id) => i < j
           /\ \A i, j, k \in DOMAIN lines :
                (/\ i < k
                 /\ dev[lines[i].id].parent = dev[lines[k].id].parent
                 /\ lines[i].id \in Ancestors(dev, lines[j].id)) => j < k
           /\ \A j \in DOMAIN lines :
                /\ dev[lines[j].id].parent # cliCall.id
                    => dev[dev[lines[j].id].parent].fmt = Association
                /\ \A i \in DOMAIN lines : lines[i].id = lines[j].id => i = j
           /\ cliCall.fail = [name |-> {}, format |-> {}] =>
                {lines[j].id : j \in DOMAIN lines} = Reached(dev, cliCall.id)

\* the root was listed with its directories, the files in them and a file
\* that has an object below it
ListedTree ==
    /\ cliCall.cmd = "ls" /\ cliCall.recursive
    /\ cliCall.id = Root
    /\ \E i, j, k \in DOMAIN cliCall.lines :
        /\ cliCall.lines[i].text = "a/c/e"
        /\ cliCall.lines[j].text = "a/f"
        /\ cliCall.lines[k].text = "g"
    /\ \E h \in DOMAIN dev : dev[h].parent = 3 /\ dev[3].fmt # Association

\* the commands run from the interactive loop
FileCommands == {"mkpath", "resolve", "put", "ls"}

\* C16: in the interactive loop the hint about a locked or charge-only
\* device is shown exactly when a command fails with an invalid-response
\* error whose type is InvalidStorageID
HintOnlyForInvalidStorageID ==
    cliCall.cmd \in FileCommands =>
        ((\E i \in DOMAIN cliCall.printed : cliCall.printed[i] = LockedHint)
            <=> (/\ cliCall.thrown.class = "InvalidResponseException"
                 /\ cliCall.thrown.Type = "InvalidStorageID"))

\* a command has failed with an invalid response of another type, and
\* printed its error
FailedWithGeneralError ==
    /\ cliCall.cmd = "put"
    /\ cliCall.thrown.class = "InvalidResponseException"
    /\ cliCall.thrown.Type = "GeneralError"
    /\ cliCall.printed = <<"error: GeneralError">>

\* a command has failed with InvalidStorageID
FailedWithInvalidStorageID ==
    /\ cliCall.cmd = "put"
    /\ cliCall.thrown.Type = "InvalidStorageID"
    /\ Len(cliCall.printed) = 2

\* the calls of the function among those the last member function made
Calls(fn) == {i \in DOMAIN winusb.api : winusb.api[i].fn = fn}

\* the stream the last WriteBulk was given ends on a packet boundary
WroteFullPackets ==
    /\ winusb.op = "WriteBulk"
    /\ winusb.thrown = ""
    /\ winusb.args[2] > 0
    /\ winusb.args[2] % winusb.args[1].maxPacketSize = 0

\* C17: a Device::WriteBulk whose total length is a non-zero multiple of the
\* maximum packet size of the endpoint is terminated with a zero-length
\* packet
WriteBulkEndsWithZeroLengthPacket ==
    WroteFullPackets =>
        \/ /\ winusb.api # <<>>
           /\ winusb.api[Len(winusb.api)].fn = "WinUsb_WritePipe"
           /\ winusb.api[Len(winusb.api)].args[2] = 0
        \/ \E i \in Calls("WinUsb_SetPipePolicy") :
            winusb.api[i].args[2] = "SHORT_PACKET_TERMINATE"

\* the last ReadBulk ran into the timeout of the pipe
ReadTimedOut ==
    /\ winusb.op = "ReadBulk"
    /\ \E i \in DOMAIN winusb.args[2] :
        /\ winusb.args[2][i].lastError = "ERROR_SEM_TIMEOUT"
        /\ \A j \in 1..(i - 1) : winusb.args[2][j].result

\* C18: when a Device::ReadBulk times out, clear_halt is issued on the
\* endpoint and the call fails with a timeout error
ReadBulkTimeoutClearsHalt ==
    ReadTimedOut =>
        /\ winusb.thrown = "ReadBulk timeout"
        /\ \E i \in Calls("WinUsb_ResetPipe") :
            winusb.api[i].args[1] = winusb.args[1].address

\* C19: destroying the usb::Device resets the USB device before its handles
\* are released
DestroyResetsBeforeRelease ==
    winusb.op = "~Device" =>
        \E i \in Calls("WinUsb_ResetPipe") :
            \A j \in Calls("WinUsb_Free") \cup Calls("CloseHandle") : i < j

\* the string is the PTP string of the characters: their number and one, the
\* characters as 16-bit little-endian code units, and a 16-bit NUL
IsPtpString(data, s) ==
    /\ Len(data) = 1 + 2 * (Len(s) + 1)
    /\ data[1] = Len(s) + 1
    /\ \A i \in DOMAIN s : data[2 * i] = s[i] /\ data[2 * i + 1] = 0
    /\ data[Len(data) - 1] = 0 /\ data[Len(data)] = 0

\* the characters of the GUID a command was given, in upper case
Upper(s) == [i \in DOMAIN s |-> IF s[i] \in 97..122 THEN s[i] - 32 ELSE s[i]]

\* the string the last command had to encode
Encoded ==
    IF cliCall.cmd = "set_zune_guid" \/ cliCall.guid = <<>>
       \/ cliCall.guid[1] # 123
    THEN <<123>> \o Upper(cliCall.guid) \o <<125>>
    ELSE Upper(cliCall.guid)

\* C21: for every ASCII string of at most 254 characters, the PTP string
\* built by SetDeviceProp and by EncodeGuidAsUtf16 is one byte equal to the
\* number of characters plus one, each character as a little-endian 16-bit
\* code unit, and a 16-bit NUL: 1 + 2 * (len + 1) bytes
PtpStringOfGuid ==
    (cliCall.cmd \in {"SetDeviceProp", "set_zune_guid"} /\ Len(Encoded) <= 254)
        => \A i \in 1..cliCall.issued :
            LastOps[i].code \in {"0xd401", "0xd220"}
                => IsPtpString(LastOps[i].data, Encoded)

\* SetDeviceProp has encoded a string of 254 characters, after
\* set_zune_guid_aftl has
EncodedLongest ==
    /\ cliCall.cmd = "SetDeviceProp"
    /\ Len(Encoded) = 254
    /\ cliCall.issued = 1
    /\ Len(LastOps[1].data) = 511
    /\ \E i \in DOMAIN usb : usb[i].code = "0xd220" /\ Len(usb[i].data) = 511

Registered(librarySupported, rebootSupported) ==
    BaseCommands
        \cup (IF librarySupported THEN LibraryCommands ELSE {})
        \cup (IF rebootSupported THEN RebootCommands ELSE {})

\* the handshake of the constructor has failed
HandshakeFailed == usb # <<>> /\ ~usb[Len(usb)].ok

\* C29: the construction of cli::Session completes with every command of
\* the device registered, whether Authenticate() throws or not; an
\* Authenticate() that throws is reported; without a trusted app
\* Authenticate() is not called: no handshake operation is issued
AuthenticateFailureNotFatal ==
    cliCall.cmd = "Session"
        => /\ cliCall.result = "done"
           /\ cli.constructed
           /\ cli._commands = Registered(cliCall.args[3], cliCall.args[4])
           /\ HandshakeFailed
                <=> cliCall.printed = <<"mtpz authentication failed">>
           /\ ~HandshakeFailed => cliCall.printed = <<>>
           /\ ~cliCall.args[1] => cliCall.issued = 0 /\ ~cli.authenticated

\* cli::Session has been constructed although Authenticate() threw
ConstructedAfterFailedAuthenticate ==
    /\ cliCall.cmd = "Session"
    /\ HandshakeFailed
    /\ cli.constructed
    /\ <<"zune-import", 1>> \in cli._commands
    /\ <<"test-lexer", 1>> \in cli._commands

\* the registered commands of the name and the argument count of the line
Matching(tokens) ==
    {cmd \in cli._commands : cmd[1] = Head(tokens) /\ cmd[2] = Len(tokens) - 1}

\* C30: ProcessCommand of a line executes one registered command, of the
\* name of the first token and of as many arguments as tokens remain, with
\* the remaining tokens, or executes none and fails: with "invalid command"
\* when no command has the name, with "invalid argument count" when no
\* command of the name has that many arguments
ProcessCommandRunsOneMatching ==
    (cliCall.cmd = "ProcessCommand" /\ cliCall.args # <<>>)
        => \/ /\ Len(cliCall.executed) = 1
              /\ cliCall.executed[1][1] \in Matching(cliCall.args)
              /\ cliCall.executed[1][2] = Tail(cliCall.args)
              /\ cliCall.result \in {"done", "command failed"}
           \/ /\ cliCall.executed = <<>>
              /\ CommandsNamed(cli, Head(cliCall.args)) = {}
              /\ cliCall.result = "invalid command"
           \/ /\ cliCall.executed = <<>>
              /\ CommandsNamed(cli, Head(cliCall.args)) # {}
              /\ Matching(cliCall.args) = {}
              /\ cliCall.result = "invalid argument count"

\* of the two commands named put, the one of one argument has been executed
RanPutOfOneArgument ==
    /\ cliCall.cmd = "ProcessCommand"
    /\ cliCall.args = <<"put", "f">>
    /\ cliCall.executed = << <<(<<"put", 1>>), (<<"f">>)>> >>
    /\ <<"put", 2>> \in cli._commands

\* the id after an id, where 0xFFFFFFFF is followed by 0x00000001
Following(id) ==
    IF id = <<Half - 1, Half - 1>> THEN <<0, 1>> ELSE Increment(id)

\* C23: the transaction id of every Command container after the first is
\* the id of the container before it plus one, and 0x00000001 after
\* 0xFFFFFFFF; no command after OpenSession has the id 0x00000000
TransactionIdsSkipZero ==
    \A i \in 2..Len(cli.sent) :
        /\ cli.sent[i].txid = Following(cli.sent[i - 1].txid)
        /\ cli.sent[i].txid # <<0, 0>>

\* C24: the leading count of every property list CreateArtist, CreateAlbum
\* and CreateTrack send is the number of elements written after it, whatever
\* the artist support, the GUID, the year, the DateAuthored support, the
\* genre and the track index
CountIsNumberOfElements ==
    \A i \in PropListsOf({"CreateArtist", "CreateAlbum", "CreateTrack"}) :
        trace[i].propList.count = Len(trace[i].propList.elements)

\* CreateTrack has sent the five properties of a track with a genre and a
\* track index
TrackSentWithGenreAndIndex ==
    /\ call.op = "CreateTrack" /\ call.ok
    /\ \E i \in PropListsOf({"CreateTrack"}) :
        /\ trace[i].propList.count = 5
        /\ \E k \in 1..5 : trace[i].propList.elements[k].code = "Track"
        /\ \E k \in 1..5 : trace[i].propList.elements[k].code = "Genre"

\* the outcomes of WinUsb_ReadPipe the last ReadBulk was given
Outcomes == winusb.args[2]

\* the first read that failed or did not fill the buffer
FirstShort ==
    CHOOSE i \in DOMAIN Outcomes :
        /\ ~Outcomes[i].result \/ Outcomes[i].bytesRead # BufferSize(BulkIn)
        /\ \A j \in 1..(i - 1) :
            Outcomes[j].result /\ Outcomes[j].bytesRead = BufferSize(BulkIn)

\* the calls of the last member function, without the pipe policy
Transfers == SelectSeq(winusb.api, LAMBDA a : a.fn # "WinUsb_SetPipePolicy")

RECURSIVE ReadsAndWrites(_)
\* the calls a ReadBulk makes for the reads up to i: each read, and after
\* it the write of its bytes if it stored any
ReadsAndWrites(i) ==
    IF i = 0 THEN <<>>
    ELSE ReadsAndWrites(i - 1)
         \o << [fn |-> "WinUsb_ReadPipe",
                args |-> <<BulkIn.address, BufferSize(BulkIn)>>] >>
         \o (IF Outcomes[i].result /\ Outcomes[i].bytesRead > 0
             THEN << [fn |-> "Write",
                      args |-> <<Outcomes[i].bytes, Outcomes[i].bytesRead>>] >>
             ELSE <<>>)

\* C25: ReadBulk reads the pipe as long as a read fills the buffer, writes
\* the bytes of each read to the output stream right after the read, in the
\* order of arrival, and returns after the first read that does not fill
\* the buffer, a read of no byte included, which it does not write
ReadBulkWritesEveryRead ==
    (winusb.op = "ReadBulk" /\ ~InvalidWinUsbHandle(winusb))
        => /\ Transfers = ReadsAndWrites(FirstShort)
           /\ Outcomes[FirstShort].result <=> winusb.thrown = ""

\* ReadBulk has written two full buffers and the shorter read after them
WroteThreeReads ==
    /\ winusb.op = "ReadBulk"
    /\ winusb.thrown = ""
    /\ FirstShort = 3
    /\ Cardinality(Calls("WinUsb_ReadPipe")) = 3
    /\ Cardinality(Calls("Write")) = 3

\* the operations of SetWiFiNetwork, in the order of the code
WiFiOrder ==
    << "GetWiFiNetworkList", "0x9224", "0x9227", "0x9228(0)", "0x9228(2)",
       "0x9228(2)", "0x9228(2)", "GetDevicePropValue(0xd217)",
       "GetDevicePropValue(0xd217)" >>

\* C26: with keys loaded SetWiFiNetwork issues GetWiFiNetworkList, 0x9224,
\* SetWiFiConfiguration (0x9227), 0x9228(0), 0x9228(2) three times and
\* GetDevicePropValue(0xd217) twice, in this order; no operation follows one
\* that failed, the failure is reported and the command ends without error
WiFiOperationsInOrder ==
    (cliCall.cmd = "SetWiFiNetwork" /\ KeysLoaded(cli))
        => /\ cliCall.issued <= 9
           /\ \A i \in 1..cliCall.issued :
                /\ LastOps[i].code = WiFiOrder[i]
                /\ ~LastOps[i].ok => i = cliCall.issued
           /\ cliCall.result \in {"done", "failed"}
           /\ cliCall.result = "done"
                <=> (cliCall.issued = 9 /\ LastOps[9].ok)

\* SetWiFiNetwork has stopped at the failure of 0x9228(0)
WiFiStoppedAtFailure ==
    /\ cliCall.cmd = "SetWiFiNetwork" /\ KeysLoaded(cli)
    /\ cliCall.issued = 4
    /\ ~LastOps[4].ok
    /\ cliCall.result = "failed"

\* the last command has got the scan data of the device
Scanned == cliCall.cmd \in {"ListWiFiNetworks", "SetWiFiNetwork"}

\* C27: the loops of ListWiFiNetworks and SetWiFiNetwork over the scan data
\* end within as many iterations as the data has bytes, plus one, and read
\* no byte outside the data; every SSID ListWiFiNetworks reports has 1 to 32
\* characters, all of them printable ASCII (32 to 126)
ScansStayInBuffer ==
    Scanned
        => /\ ~cliCall.scan.exhausted
           /\ cliCall.scan.reads \subseteq 0..(Len(cliCall.data) - 1)
           /\ \A ssid \in cliCall.scan.networks :
                /\ Len(ssid) \in 1..32
                /\ \A i \in DOMAIN ssid : ssid[i] \in 32..126

\* ListWiFiNetworks has reported an SSID of 32 characters that ends the
\* response, after having skipped bytes that are no entry
ListedLongestSsid ==
    /\ cliCall.cmd = "ListWiFiNetworks"
    /\ Scanned
    /\ cliCall.scan.networks = {[i \in 1..32 |-> 98]}
    /\ cliCall.scan.offset = Len(cliCall.data)
    /\ Len(cliCall.data) - 1 \in cliCall.scan.reads

\* the GUID string of the last call has 32 hex digits, its dashes removed
Hex32 ==
    /\ Len(RemoveDashes(call.guid)) = 32
    /\ \A i \in 1..32 : IsHex(RemoveDashes(call.guid)[i])

\* byte j (from 1) of the text of 32 digits
TextByte(hex, j) == 16 * HexVal(hex[2 * j - 1]) + HexVal(hex[2 * j])

\* the first four bytes of the text reversed, the next two reversed, the
\* next two reversed, the last eight in the order of the text
MixedEndian(hex) ==
    << TextByte(hex, 4), TextByte(hex, 3), TextByte(hex, 2), TextByte(hex, 1),
       TextByte(hex, 6), TextByte(hex, 5), TextByte(hex, 8), TextByte(hex, 7) >>
    \o [j \in 1..8 |-> TextByte(hex, 8 + j)]

\* C28: for a GUID string of 32 hex digits, dashes removed, CreateArtist and
\* UpdateArtistGuid store the same 16 bytes in the artist: the first four
\* bytes of the text reversed, the next two reversed, the next two reversed
\* and the last eight in the order of the text
SameGuidBytes ==
    /\ (call.op = "CreateArtist" /\ call.ok /\ Hex32)
        => lib.artistObjs[call.ret].Guid = MixedEndian(RemoveDashes(call.guid))
    /\ (call.op = "UpdateArtistGuid" /\ call.artist # Null /\ Hex32)
        => /\ call.ok
           /\ lib.artistObjs[call.artist].Guid
                = MixedEndian(RemoveDashes(call.guid))

\* UpdateArtistGuid has stored in an artist the 16 bytes the first artist
\* holds
UpdatedToGuidOfCreated ==
    /\ call.op = "UpdateArtistGuid" /\ call.artist # Null /\ Hex32
    /\ call.artist # 1
    /\ lib.artistObjs[1].Guid = lib.artistObjs[call.artist].Guid
    /\ Len(lib.artistObjs[1].Guid) = 16
    /\ Len(trace) = 0

\* line i of the last input ran quit or exit
RanQuit(i) ==
    cliCall.lines[i].cmd \in {"quit", "exit"} /\ cliCall.lines[i].ex = "none"

\* C31: the interactive loop catches the error of every command line and
\* reads the next line; it ends only at the end of the input, or right
\* after the line that ran quit or exit, of which it reads no line further
LoopEndsAtInputEndOrQuit ==
    cliCall.cmd = "InteractiveInput"
        => /\ cliCall.result = "done"
           /\ \/ cliCall.read = Len(cliCall.lines)
              \/ cliCall.read > 0 /\ RanQuit(cliCall.read)
           /\ \A i \in 1..(cliCall.read - 1) : ~RanQuit(i)

\* C32: every cached album is the album GetAlbum finds for its current
\* artist and its name, and so GetAlbumsByArtist of an artist holds the
\* albums GetAlbum finds for that artist
AlbumsKeyedByCurrentArtist ==
    \A b \in CachedAlbums :
        /\ GetAlbum(lib, lib.albumObjs[b].Artist, lib.albumObjs[b].Name) = b
        /\ b \in GetAlbumsByArtist(lib, lib.albumObjs[b].Artist)

\* C33: no put of a regular file issues DeleteObject on an object of format
\* Association: the object that has the target filename under the target
\* parent is deleted only if it is no directory, so every directory of the
\* device is still there after the put
PutDeletesNoDirectory ==
    [][cliCall'.cmd = "put"
        => \A id \in DOMAIN dev :
            dev[id].fmt = Association => dev'[id].fmt = Association]_vars

\* C34: UpdateArtistGuid leaves the Guid of the artist as it was, or
\* replaces it by the 16 bytes that encode the GUID string, whatever the
\* string: empty, of another length than 32, or of 32 characters that are
\* not all hex digits
GuidReplacedOrKept ==
    [][(call'.op = "UpdateArtistGuid" /\ call'.artist # Null)
        => \/ lib'.artistObjs[call'.artist].Guid
                = lib.artistObjs[call'.artist].Guid
           \/ /\ Hex32'
              /\ lib'.artistObjs[call'.artist].Guid
                    = MixedEndian(RemoveDashes(call'.guid))]_vars


\* the tracks that the device's album object of a cached album references
DeviceRefs(b) == Range(dev[lib.albumObjs[b].Id].refs)

\* the album of the call has the track of the call
AddedTrackIsCached ==
    /\ HasTrack(W(0), call.album, dev[call.track].name, dev[call.track].index)
    /\ call.track \in Range(GetTracksForAlbum(W(0), call.album))

\* C35: after an AddTrack(album, ti) that succeeded, HasTrack(album, ti.Name,
\* ti.Index) is true and GetTracksForAlbum(album) contains ti.Id; after one
\* whose SetObjectReferences failed, the album's cached Refs and Tracks hold
\* no track but those that the device's album references: they did not gain
\* the track that the device did not take
AddTrackCachesWhatTheDeviceTook ==
    (call.op = "AddTrack" /\ call.album # Null)
        => IF call.ok
           THEN AddedTrackIsCached
           ELSE /\ lib.albumObjs[call.album].Refs \subseteq DeviceRefs(call.album)
                /\ lib.albumObjs[call.album].Tracks
                       \subseteq {<<dev[t].name, dev[t].index>> :
                                      t \in DeviceRefs(call.album)}

\* an AddTrack has failed on an album that caches other tracks: the track is
\* not among them
AddTrackFailedOnLoadedAlbum ==
    /\ call.op = "AddTrack"
    /\ call.album # Null
    /\ ~call.ok
    /\ lib.albumObjs[call.album].Refs # {}
    /\ call.track \notin lib.albumObjs[call.album].Refs
    /\ call.track \notin DeviceRefs(call.album)


\* the import sent the track's data, had a cover to send to a device that
\* takes covers, and the cover did not arrive
CoverUploadFailed ==
    /\ call.op = "ZuneImport"
    /\ Issued("SendObject") # {}
    /\ call.meta.Picture
    /\ lib._albumCoverSupported
    /\ \A i \in Issued("SetObjectPropValue") :
            trace[i].property # "RepresentativeSampleData"

\* C36: a ZuneImport that has created the track and sent its data adds the
\* track to the album's references when uploading the cover fails
ImportAddsTrackAfterFailedCover ==
    CoverUploadFailed => Issued("SetObjectReferences") # {}


\* two directories with one name under one parent
Twins(d) ==
    {<<i, j>> \in (DOMAIN d) \X (DOMAIN d) :
        /\ i < j
        /\ d[i].fmt = Association /\ d[j].fmt = Association
        /\ d[i].parent = d[j].parent
        /\ d[i].filename = d[j].filename}

\* C37: on a device where no two sibling directories have one name, the
\* constructor, CreateArtist and CreateAlbum create no directory with the
\* name of a sibling, whatever artist and album objects the device holds
NoTwinDirectories == Twins(dev) = {}


\* the place of a state in the enumeration Library::State
Rank(state) == CHOOSE i \in DOMAIN States : States[i] = state

\* C38: the states that the constructor of Library passes to the progress
\* reporter never go backwards in the order Initialising, QueryingArtists,
\* LoadingArtists, QueryingAlbums, LoadingAlbums, Loaded, and the last state
\* that a constructor that returns reports is Loaded
ReportsGoForwards ==
    call.op = "Library"
        => /\ \A i, j \in DOMAIN hist.reported :
                i < j => Rank(hist.reported[i]) <= Rank(hist.reported[j])
           /\ call.ok => /\ hist.reported # <<>>
                         /\ hist.reported[Len(hist.reported)] = "Loaded"


----------------------------------------------------------------------------
(* The storage selection of cli::Session *)

\* Session::AllStorages, 0xffffffff, as two halves of 16 bits
AllStorages == <<65535, 65535>>

DecimalDigits == <<"0", "1", "2", "3", "4", "5", "6", "7", "8", "9">>

RECURSIVE to_string(_)
\* std::to_string(n), a sequence of characters
to_string(n) ==
    IF n < 10 THEN <<DecimalDigits[n + 1]>>
    ELSE to_string(n \div 10) \o <<DecimalDigits[(n % 10) + 1]>>

\* Session::GetStorageIDs() on the device: 0x00010001 and 0x00020001
StorageIDs == << <<1, 1>>, <<2, 1>> >>

\* Session::GetStorageInfo(id) on the device
GetStorageInfo(id) ==
    IF id = <<1, 1>>
    THEN [StorageDescription |-> <<"i">>, VolumeLabel |-> <<>>]
    ELSE [StorageDescription |-> <<>>, VolumeLabel |-> <<"c">>]

\* msg::StorageInfo::GetName(): the description, or the label of a storage
\* without one
GetName(si) ==
    IF si.StorageDescription # <<>> THEN si.StorageDescription
    ELSE si.VolumeLabel

\* the paths that select every storage
AllPaths == { <<"A", "l", "l">>, <<"a", "l", "l">>, <<"*">> }

\* GetStorageByPath: the id in decimal, the description or the label is the
\* path
MatchesStorage(path, id) ==
    \/ to_string(id[1] * Half + id[2]) = path
    \/ GetStorageInfo(id).StorageDescription = path
    \/ GetStorageInfo(id).VolumeLabel = path

\* a command of the session on the storages: ret is the storage found and si
\* its StorageInfo
StorageLookup(c) == [ret |-> AllStorages, c |-> c, thrown |-> "", printed |-> <<>>,
              si |-> [StorageDescription |-> <<>>, VolumeLabel |-> <<>>]]

\* a GetStorageByPath that would take the first storage when none matches
StorageFoundOrFirst(s, i, failAt) ==
    IF failAt > 1 /\ failAt - 1 <= (IF i = 0 THEN Len(StorageIDs) ELSE i)
    THEN [s EXCEPT !.thrown = "GetStorageInfo"]
    ELSE [s EXCEPT !.ret = StorageIDs[IF i = 0 THEN 1 ELSE i],
                   !.si = GetStorageInfo(StorageIDs[IF i = 0 THEN 1 ELSE i])]

\* GetStorageByPath, its loop: i is the first storage that matches, 0 for
\* none; the GetStorageInfo numbered failAt - 1 throws
StorageFound(s, i, failAt) ==
    IF failAt > 1 /\ failAt - 1 <= (IF i = 0 THEN Len(StorageIDs) ELSE i)
    THEN [s EXCEPT !.thrown = "GetStorageInfo"]
    ELSE IF i = 0 THEN [s EXCEPT !.thrown = "storage could not be found"]
    ELSE [s EXCEPT !.ret = StorageIDs[i], !.si = GetStorageInfo(StorageIDs[i])]

\* Session::GetStorageByPath(path, si, allowAll); GetStorageIDs throws when
\* failAt is 1
GetStorageByPath(s, path, allowAll, failAt) ==
    IF allowAll /\ path \in AllPaths THEN [s EXCEPT !.ret = AllStorages]
    ELSE IF failAt = 1 THEN [s EXCEPT !.thrown = "GetStorageIDs"]
    ELSE StorageFound(s, FirstIndex(StorageIDs,
                                    LAMBDA id : MatchesStorage(path, id)),
                      failAt)

\* ChangeStorage, the storage found
SelectStorage(found, promptFails) ==
    IF found.thrown # "" THEN found
    ELSE UpdatePrompt(
            [found EXCEPT
               !.c._cs = found.ret,
               !.c._csName = IF found.ret # AllStorages
                             THEN GetName(found.si) ELSE <<>>,
               !.printed = IF found.ret # AllStorages
                           THEN Append(@, "selected storage") ELSE @],
            promptFails)

\* Session::ChangeStorage(path)
ChangeStorage(c, path, failAt, promptFails) ==
    SelectStorage(GetStorageByPath(StorageLookup(c), path, TRUE, failAt), promptFails)

\* the paths given to the command storage
StoragePaths ==
    AllPaths \cup { to_string(65537), <<"1", "0", "0", "0", "1">>, <<"i">>,
                    <<"c">>, <<"x">>, <<>> }

InitStorage ==
    /\ IdleLibrary
    /\ cli \in {c \in [_showPrompt : BOOLEAN, _batterySupported : BOOLEAN,
                       _cs : {AllStorages}, _csName : {<<>>}] :
                    c._batterySupported => c._showPrompt}
    /\ cliCall = NoCommand
    /\ usb = <<>>
    /\ winusb = OpenedDevice

\* the command storage has run
StorageCommand(path, run) ==
    /\ calls < MaxCalls
    /\ calls' = calls + 1
    /\ cli' = run.c
    /\ cliCall' = [result |-> IF run.thrown = "" THEN "done" ELSE "failed",
                   cmd |-> "storage", issued |-> 0, thrown |-> run.thrown,
                   printed |-> run.printed, path |-> path]
    /\ UNCHANGED <<dev, devInfo, lib, call, trace, hist, usb, winusb>>

CallChangeStorage ==
    \E path \in StoragePaths, failAt \in 0..3, promptFails \in BOOLEAN :
        StorageCommand(path, ChangeStorage(cli, path, failAt, promptFails))

NextStorage == CallChangeStorage

SpecStorage == InitStorage /\ [][NextStorage]_vars

\* the path is not All, all or *, and no storage has it as its id, its
\* description or its label
Unmatched(path) ==
    /\ path \notin AllPaths
    /\ \A i \in DOMAIN StorageIDs : ~MatchesStorage(path, StorageIDs[i])

\* C39: ChangeStorage of a path that is not All, all or * and matches no
\* storage's id, description or label fails with an error and leaves the
\* selected storage and its displayed name as they were
UnknownStorageKeepsSelection ==
    [][(cliCall'.cmd = "storage" /\ Unmatched(cliCall'.path))
        => /\ cliCall'.result = "failed"
           /\ cli'._cs = cli._cs
           /\ cli'._csName = cli._csName]_vars

\* a path that matches nothing was given while a storage was selected
UnknownStorageAfterSelection ==
    /\ cliCall.cmd = "storage"
    /\ Unmatched(cliCall.path)
    /\ cliCall.thrown = "storage could not be found"
    /\ cli._cs = <<2, 1>>
    /\ cli._csName = <<"c">>

=============================================================================
